---- MODULE Spec2Model ----
(***************************************************************************)
(* The location-aware tool-calling core of the hawker-centre chatbot:      *)
(*   - the transport bridge (MCPClient, web/src/lib/server/mcp client),    *)
(*   - the tool dispatcher and its three tools (mcp-server/src/index.ts,   *)
(*     tools/*.ts),                                                        *)
(*   - the open-data gateway with its two caches (services/data-gov-sg),   *)
(*   - the proximity ranker (services/distance.ts).                        *)
(* Spec is the bridge; SpecServer the dispatcher, tools and gateway;       *)
(* SpecRank the ranker as a pure function of its inputs.                   *)
(***************************************************************************)
EXTENDS Integers, Sequences, FiniteSets, TLC

VARIABLES
    \* ---- transport bridge (class MCPClient) ----
    process,          \* this.process: 0 is null, k > 0 the k-th spawned child
    messageId,        \* this.messageId
    pendingRequests,  \* keys of this.pendingRequests
    completion,       \* per request id: the promise returned by sendRequest
    req,              \* per request id: the envelope written (its argument, its child)
    pc,               \* per caller: where its callTool/listTools stands
    callerReq,        \* per caller: the id sendRequest assigned to it (0: none)
    timeLeft,         \* per request id: ms left on its timeout timer (-1: no timer)
    spawned,          \* how many children spawn() has created
    childState,       \* per child: "none", "running", "dead" (exit not yet delivered), "exited"
    stdin,            \* request ids written to their child and not yet answered
    stdout,           \* response lines in the pipes, not yet handled
    writeFail,        \* request ids whose stdin.write callback will report an error
    \* ---- tool server: gateway caches and tool calls ----
    now,                    \* Date.now() of the server process
    cachedHawkers,          \* the module's cachedHawkers (set = FALSE: null)
    cacheTimestamp,         \* the module's cacheTimestamp
    cachedClosures,         \* the module's cachedClosures (set = FALSE: null)
    closureCacheTimestamp,  \* the module's closureCacheTimestamp
    calls,                  \* per tools/call request: where its handler stands
    \* ---- proximity ranker, as a function of its inputs ----
    rankIn,           \* the inputs of one ranking: query point, radius, limit, collection
    rankOut,          \* its result (done = FALSE: not yet computed)
    \* ---- one tool call, as a function of its inputs ----
    toolIn,           \* where it is made, the tool, its arguments, the collection
    toolOut,          \* the arguments sent, the result, the text handed to the caller
    \* ---- the parsing of one feed entry, as a function of the entry ----
    parseIn,          \* the entry: a GeoJSON feature or a closure record
    parseOut,         \* what it is parsed into (done = FALSE: not yet parsed)
    \* ---- the distance of two points, as a function of the points ----
    distIn,           \* the two points
    distOut,          \* the distance measured from the first to the second, and back
    \* ---- the 'data' listener on a child's stdout, fed chunk by chunk ----
    chunkIn,          \* the bytes the child writes to its stdout
    arrived,          \* how many of them have arrived in 'data' events
    buffer,           \* the listener's buffer
    handled           \* the messages handed to handleMessage so far, in order

bridgeVars == <<process, messageId, pendingRequests, completion, req, pc, callerReq,
                timeLeft, spawned, childState, stdin, stdout, writeFail>>

rankVars == <<rankIn, rankOut>>

serverVars == <<now, cachedHawkers, cacheTimestamp, cachedClosures,
                closureCacheTimestamp, calls>>

toolVars == <<toolIn, toolOut>>

parseVars == <<parseIn, parseOut>>

distVars == <<distIn, distOut>>

chunkVars == <<chunkIn, arrived, buffer, handled>>

vars == <<bridgeVars, serverVars, rankVars, toolVars, parseVars, distVars, chunkVars>>

-----------------------------------------------------------------------------
(* Bounds of the bridge model *)
MaxCalls == 2
TickMs == 30000

(* Program constants of the bridge *)
REQUEST_TIMEOUT == 30000

Callers == 1..MaxCalls
Ids == 1..MaxCalls
(* Every call may spawn a child; one more for the child of a call made      *)
(* before the calls of Callers (see RelaunchInit)                           *)
Children == 1..(MaxCalls + 1)

Min(S) == CHOOSE x \in S : \A y \in S : x <= y

-----------------------------------------------------------------------------
(* Promises: a promise is settled at most once; later resolve/reject calls  *)
(* are no-ops.                                                               *)
Unsettled == [st |-> "pending", text |-> "", arg |-> 0]
NoPromise == [st |-> "none", text |-> "", arg |-> 0]
Resolved(text, arg) == [st |-> "resolved", text |-> text, arg |-> arg]
Rejected(text, arg) == [st |-> "rejected", text |-> text, arg |-> arg]

Settle(c, id, v) == IF c[id].st = "pending" THEN [c EXCEPT ![id] = v] ELSE c

NoReq == [arg |-> 0, child |-> 0]

(* The response lines a child may write for the request envelope r it read  *)
(* under id: a result, or an error (an unknown tool, a handler fault); both *)
(* are computed from the envelope's arguments.                              *)
ResponsesFor(id, r) ==
    { [id |-> id, error |-> FALSE, text |-> "result", arg |-> r.arg],
      [id |-> id, error |-> TRUE, text |-> "Tool execution failed", arg |-> r.arg] }

-----------------------------------------------------------------------------
(* MCPClient.handleMessage *)
handleMessage_fifo(message) ==
    IF pendingRequests # {}
    THEN LET first == Min(pendingRequests) IN
         /\ pendingRequests' = pendingRequests \ {first}
         /\ completion' = Settle(completion, first,
                IF message.error THEN Rejected(message.text, message.arg)
                ELSE Resolved(message.text, message.arg))
    ELSE UNCHANGED <<pendingRequests, completion>>

handleMessage_resolveOnly(message) ==
    IF message.id \in pendingRequests
    THEN /\ pendingRequests' = pendingRequests \ {message.id}
         /\ completion' = Settle(completion, message.id,
                                 Resolved(message.text, message.arg))
    ELSE UNCHANGED <<pendingRequests, completion>>

handleMessage(message) ==
    IF message.id \in pendingRequests
    THEN /\ pendingRequests' = pendingRequests \ {message.id}
         /\ completion' = Settle(completion, message.id,
                IF message.error
                THEN Rejected(IF message.text # "" THEN message.text ELSE "MCP error",
                              message.arg)
                ELSE Resolved(message.text, message.arg))
    ELSE UNCHANGED <<pendingRequests, completion>>

(* A sendRequest that arms no timeout *)
sendRequest_noTimer(c) ==
    IF process = 0
    THEN /\ pc' = [pc EXCEPT ![c] = "failed"]
         /\ UNCHANGED <<messageId, pendingRequests, completion, req, callerReq,
                        timeLeft, stdin, writeFail>>
    ELSE LET id == messageId + 1 IN
         /\ messageId' = id
         /\ pendingRequests' = pendingRequests \cup {id}
         /\ completion' = [completion EXCEPT ![id] = Unsettled]
         /\ req' = [req EXCEPT ![id] = [arg |-> c, child |-> process]]
         /\ callerReq' = [callerReq EXCEPT ![c] = id]
         /\ pc' = [pc EXCEPT ![c] = "sent"]
         /\ UNCHANGED timeLeft
         /\ IF childState[process] = "running"
            THEN /\ stdin' = stdin \cup {id}
                 /\ UNCHANGED writeFail
            ELSE /\ writeFail' = writeFail \cup {id}
                 /\ UNCHANGED stdin

(* The body of MCPClient.sendRequest, run by caller c: the envelope's       *)
(* params are the caller's own (arg stands for them)                        *)
sendRequest(c) ==
    IF process = 0
    THEN /\ pc' = [pc EXCEPT ![c] = "failed"]
         /\ UNCHANGED <<messageId, pendingRequests, completion, req, callerReq,
                        timeLeft, stdin, writeFail>>
    ELSE LET id == messageId + 1 IN
         /\ messageId' = id
         /\ pendingRequests' = pendingRequests \cup {id}
         /\ completion' = [completion EXCEPT ![id] = Unsettled]
         /\ req' = [req EXCEPT ![id] = [arg |-> c, child |-> process]]
         /\ callerReq' = [callerReq EXCEPT ![c] = id]
         /\ pc' = [pc EXCEPT ![c] = "sent"]
         /\ timeLeft' = [timeLeft EXCEPT ![id] = REQUEST_TIMEOUT]
         /\ IF childState[process] = "running"
            THEN /\ stdin' = stdin \cup {id}
                 /\ UNCHANGED writeFail
            ELSE /\ writeFail' = writeFail \cup {id}
                 /\ UNCHANGED stdin

(* A start that begins a fresh id sequence with every child it spawns *)
start_resetIds(c) ==
    IF process # 0
    THEN /\ sendRequest(c)
         /\ UNCHANGED <<process, spawned, childState>>
    ELSE /\ spawned' = spawned + 1
         /\ process' = spawned + 1
         /\ childState' = [childState EXCEPT ![spawned + 1] = "running"]
         /\ pc' = [pc EXCEPT ![c] = "starting"]
         /\ messageId' = 0
         /\ UNCHANGED <<pendingRequests, completion, req, callerReq,
                        timeLeft, stdin, writeFail>>

(* MCPClient.start, as awaited by caller c: returns at once when a child is *)
(* held (the caller goes straight on to sendRequest), else spawns one and   *)
(* waits for it to be ready.                                                *)
start(c) ==
    IF process # 0
    THEN /\ sendRequest(c)
         /\ UNCHANGED <<process, spawned, childState>>
    ELSE /\ spawned' = spawned + 1
         /\ process' = spawned + 1
         /\ childState' = [childState EXCEPT ![spawned + 1] = "running"]
         /\ pc' = [pc EXCEPT ![c] = "starting"]
         /\ UNCHANGED <<messageId, pendingRequests, completion, req, callerReq,
                        timeLeft, stdin, writeFail>>

(* Callers are numbered in the order in which their calls are made *)
MayCall(c) == pc[c] = "idle" /\ \A d \in Callers : d < c => pc[d] # "idle"

(* MCPClient.callTool(name, args) *)
callTool(c) ==
    /\ MayCall(c)
    /\ start(c)
    /\ UNCHANGED stdout

(* MCPClient.listTools() *)
listTools(c) ==
    /\ MayCall(c)
    /\ start(c)
    /\ UNCHANGED stdout

(* start()'s readiness wait (setTimeout 500) elapses: the caller goes on to *)
(* sendRequest                                                              *)
startDone(c) ==
    /\ pc[c] = "starting"
    /\ sendRequest(c)
    /\ UNCHANGED <<process, spawned, childState, stdout>>

(* The callback of stdin.write reporting an error *)
writeCallback(id) ==
    /\ id \in writeFail
    /\ writeFail' = writeFail \ {id}
    /\ pendingRequests' = pendingRequests \ {id}
    /\ completion' = Settle(completion, id, Rejected("write EPIPE", 0))
    /\ UNCHANGED <<process, messageId, req, pc, callerReq, timeLeft,
                   spawned, childState, stdin, stdout>>

(* The setTimeout callback of sendRequest *)
timeoutCallback_keepEntry(id) ==
    /\ timeLeft[id] = 0
    /\ timeLeft' = [timeLeft EXCEPT ![id] = -1]
    /\ completion' = IF id \in pendingRequests
                     THEN Settle(completion, id, Rejected("MCP request timeout", 0))
                     ELSE completion
    /\ UNCHANGED <<process, messageId, pendingRequests, req, pc, callerReq,
                   spawned, childState, stdin, stdout, writeFail>>

timeoutCallback(id) ==
    /\ timeLeft[id] = 0
    /\ timeLeft' = [timeLeft EXCEPT ![id] = -1]
    /\ IF id \in pendingRequests
       THEN /\ pendingRequests' = pendingRequests \ {id}
            /\ completion' = Settle(completion, id, Rejected("MCP request timeout", 0))
       ELSE UNCHANGED <<pendingRequests, completion>>
    /\ UNCHANGED <<process, messageId, req, pc, callerReq,
                   spawned, childState, stdin, stdout, writeFail>>

(* The 'data' listener on a child's stdout, handed one complete line *)
stdoutData(message) ==
    /\ message \in stdout
    /\ handleMessage(message)
    /\ stdout' = stdout \ {message}
    /\ UNCHANGED <<process, messageId, req, pc, callerReq, timeLeft,
                   spawned, childState, stdin, writeFail>>

(* The 'exit' listener start() registers on child k *)
exitHandler_keepHandle(k) ==
    /\ childState[k] = "dead"
    /\ childState' = [childState EXCEPT ![k] = "exited"]
    /\ completion' = [id \in Ids |->
            IF id \in pendingRequests /\ completion[id].st = "pending"
            THEN Rejected("MCP server exited", 0) ELSE completion[id]]
    /\ pendingRequests' = {}
    /\ UNCHANGED <<process, messageId, req, pc, callerReq, timeLeft, spawned,
                   stdin, stdout, writeFail>>

(* An exit listener that launches the next child itself *)
exitHandler_respawn(k) ==
    /\ childState[k] = "dead"
    /\ spawned < MaxCalls
    /\ spawned' = spawned + 1
    /\ childState' = [childState EXCEPT ![k] = "exited", ![spawned + 1] = "running"]
    /\ process' = spawned + 1
    /\ completion' = [id \in Ids |->
            IF id \in pendingRequests /\ completion[id].st = "pending"
            THEN Rejected("MCP server exited", 0) ELSE completion[id]]
    /\ pendingRequests' = {}
    /\ UNCHANGED <<messageId, req, pc, callerReq, timeLeft,
                   stdin, stdout, writeFail>>

exitHandler(k) ==
    /\ childState[k] = "dead"
    /\ childState' = [childState EXCEPT ![k] = "exited"]
    /\ process' = 0
    /\ completion' = [id \in Ids |->
            IF id \in pendingRequests /\ completion[id].st = "pending"
            THEN Rejected("MCP server exited", 0) ELSE completion[id]]
    /\ pendingRequests' = {}
    /\ UNCHANGED <<messageId, req, pc, callerReq, timeLeft, spawned,
                   stdin, stdout, writeFail>>

(* What a child that terminates has read and not answered is lost *)
LostWith(k) == {id \in stdin : req[id].child = k}

(* MCPClient.stop *)
stop ==
    /\ process # 0
    /\ childState' = [childState EXCEPT ![process] =
                         IF @ = "running" THEN "dead" ELSE @]
    /\ stdin' = stdin \ LostWith(process)
    /\ process' = 0
    /\ UNCHANGED <<messageId, pendingRequests, completion, req, pc, callerReq,
                   timeLeft, spawned, stdout, writeFail>>

(* ---- the environment of the bridge ---- *)

(* A running child answers one of the requests it has read, in any order *)
childRespond(id) ==
    /\ id \in stdin
    /\ childState[req[id].child] = "running"
    /\ stdin' = stdin \ {id}
    /\ \E message \in ResponsesFor(id, req[id]) : stdout' = stdout \cup {message}
    /\ UNCHANGED <<process, messageId, pendingRequests, completion, req, pc, callerReq,
                   timeLeft, spawned, childState, writeFail>>

(* The child terminates on its own *)
childCrash(k) ==
    /\ childState[k] = "running"
    /\ childState' = [childState EXCEPT ![k] = "dead"]
    /\ stdin' = stdin \ LostWith(k)
    /\ UNCHANGED <<process, messageId, pendingRequests, completion, req, pc, callerReq,
                   timeLeft, spawned, stdout, writeFail>>

(* TickMs of time pass; a timer that is due fires before more time passes *)
Armed == {i \in Ids : timeLeft[i] >= 0}

tick ==
    /\ Armed # {}
    /\ \A i \in Armed : timeLeft[i] > 0
    /\ timeLeft' = [i \in Ids |->
            IF timeLeft[i] < 0 THEN -1
            ELSE IF timeLeft[i] > TickMs THEN timeLeft[i] - TickMs ELSE 0]
    /\ UNCHANGED <<process, messageId, pendingRequests, completion, req, pc, callerReq,
                   spawned, childState, stdin, stdout, writeFail>>

BridgeInit ==
    /\ process = 0
    /\ messageId = 0
    /\ pendingRequests = {}
    /\ completion = [id \in Ids |-> NoPromise]
    /\ req = [id \in Ids |-> NoReq]
    /\ pc = [c \in Callers |-> "idle"]
    /\ callerReq = [c \in Callers |-> 0]
    /\ timeLeft = [id \in Ids |-> -1]
    /\ spawned = 0
    /\ childState = [k \in Children |-> "none"]
    /\ stdin = {}
    /\ stdout = {}
    /\ writeFail = {}

(* The bridge after a first use: a call has spawned child 1 and stop() has  *)
(* killed it at once, so that the call has failed with 'MCP server not      *)
(* started' without an id; the exit of child 1 is not yet delivered. The    *)
(* calls of Callers are made from here.                                     *)
RelaunchInit ==
    /\ process = 0
    /\ messageId = 0
    /\ pendingRequests = {}
    /\ completion = [id \in Ids |-> NoPromise]
    /\ req = [id \in Ids |-> NoReq]
    /\ pc = [c \in Callers |-> "idle"]
    /\ callerReq = [c \in Callers |-> 0]
    /\ timeLeft = [id \in Ids |-> -1]
    /\ spawned = 1
    /\ childState = [k \in Children |-> IF k = 1 THEN "dead" ELSE "none"]
    /\ stdin = {}
    /\ stdout = {}
    /\ writeFail = {}

BridgeNext ==
    \/ \E c \in Callers : callTool(c)
    \/ \E c \in Callers : listTools(c)
    \/ \E c \in Callers : startDone(c)
    \/ \E id \in Ids : writeCallback(id)
    \/ \E id \in Ids : timeoutCallback(id)
    \/ \E message \in stdout : stdoutData(message)
    \/ \E k \in Children : exitHandler(k)
    \/ stop
    \/ \E id \in Ids : childRespond(id)
    \/ \E k \in Children : childCrash(k)
    \/ tick


-----------------------------------------------------------------------------
(* Values.  A string is a sequence of characters; JavaScript's undefined is *)
(* the value Undefined; an optional number is <<>> (absent) or <<n>>.        *)
(* Coordinates are held in microdegrees, distances in millimetres.          *)
Undefined == <<"#undefined">>

LowerChar(ch) == CASE ch = "A" -> "a" [] ch = "B" -> "b" [] ch = "C" -> "c"
                   [] OTHER -> ch

(* String.prototype.toLowerCase *)
toLowerCase(str) == [i \in DOMAIN str |-> LowerChar(str[i])]

(* String.prototype.includes *)
includes(str, sub) ==
    \E i \in 0..(Len(str) - Len(sub)) : SubSeq(str, i + 1, i + Len(sub)) = sub

(* The points of the model: Place A, Place B, a far place, a query point *)
PtA == [lat |-> 1283400, lon |-> 103860700]
PtB == [lat |-> 1280300, lon |-> 103850400]
PtF == [lat |-> 1350000, lon |-> 103990000]
PtQ == [lat |-> 1281000, lon |-> 103855000]

(* Two more places, for the distances between any two places *)
PtC == [lat |-> 1300000, lon |-> 103800000]
PtD == [lat |-> 1400000, lon |-> 103750000]

(* A distance is a double. The model holds it in units of 10^-13 metre,     *)
(* as hi * 10^9 + lo with 0 <= lo < 10^9, so that two neighbouring doubles  *)
(* are two different values.                                                *)
Metres13(hi, lo) == [hi |-> hi, lo |-> lo]

(* The distance in millimetres, rounded: what the ranking compares *)
Millimetres(d) == (d.hi + 5) \div 10

(* A signed difference of latitudes in place of the great-circle distance *)
calculateDistance_signed(lat1, lon1, lat2, lon2) ==
    Metres13((lat2 - lat1) * 1100, 0)

(* calculateDistance: turf's great-circle distance in kilometres times      *)
(* 1000. turf computes the haversine                                        *)
(*   a = sin(dLat/2)^2 + sin(dLon/2)^2 * cos(lat1) * cos(lat2)              *)
(* in IEEE-754 doubles; the product is taken from the left, so that         *)
(* exchanging the two points exchanges the order of the two roundings.      *)
(* The results are tabulated for the points of the model, each ordered      *)
(* pair on its own.                                                         *)
calculateDistance(lat1, lon1, lat2, lon2) ==
    LET a == [lat |-> lat1, lon |-> lon1]
        b == [lat |-> lat2, lon |-> lon2]
        is(x, y) == a = x /\ b = y
        or(x, y) == (a = x /\ b = y) \/ (a = y /\ b = x)
    IN  CASE a = b -> Metres13(0, 0)
          [] or(PtA, PtB) -> Metres13(11957835, 781053550)
          [] or(PtA, PtF) -> Metres13(161693171, 862326817)
          [] is(PtA, PtQ) -> Metres13(6875573, 298985020)
          [] is(PtQ, PtA) -> Metres13(6875573, 298985021)
          [] or(PtA, PtC) -> Metres13(69957328, 12818571)
          [] or(PtA, PtD) -> Metres13(178755653, 38734854)
          [] or(PtB, PtF) -> Metres13(173464259, 665353566)
          [] or(PtB, PtQ) -> Metres13(5172595, 110036904)
          [] or(PtB, PtC) -> Metres13(60158103, 38253921)
          [] is(PtB, PtD) -> Metres13(173701993, 454320145)
          [] is(PtD, PtB) -> Metres13(173701993, 454320109)
          [] or(PtF, PtQ) -> Metres13(168549120, 134559125)
          [] or(PtF, PtC) -> Metres13(218409033, 159937680)
          [] or(PtF, PtD) -> Metres13(272522853, 927959368)
          [] or(PtQ, PtC) -> Metres13(64689028, 132460326)
          [] or(PtQ, PtD) -> Metres13(176446525, 189616586)
          [] or(PtC, PtD) -> Metres13(124312975, 200863075)

(* Array.prototype.filter is SelectSeq *)

(* Array.prototype.slice(0, end) *)
slice0(arr, end) ==
    LET n == Len(arr)
        k == IF end < 0 THEN (IF n + end > 0 THEN n + end ELSE 0)
             ELSE IF end > n THEN n ELSE end
    IN  SubSeq(arr, 1, k)

(* sortByDistance: map every hawker to itself with its distance, then      *)
(* Array.prototype.sort with the comparator a.distance - b.distance (a goes *)
(* before b when it is negative); the sort is stable                        *)
WithDistance(userLat, userLon, hawker) ==
    [hawker |-> hawker,
     distance |-> Millimetres(calculateDistance(userLat, userLon, hawker.latitude,
                                              hawker.longitude))]

ByDistance(a, b) == a.distance - b.distance

RECURSIVE InsertSorted(_, _)
InsertSorted(x, sorted) ==
    IF sorted = <<>> THEN <<x>>
    ELSE IF ByDistance(x, Head(sorted)) < 0 THEN <<x>> \o sorted
    ELSE <<Head(sorted)>> \o InsertSorted(x, Tail(sorted))

RECURSIVE StableSort(_)
StableSort(arr) ==
    IF arr = <<>> THEN <<>>
    ELSE InsertSorted(arr[Len(arr)], StableSort(SubSeq(arr, 1, Len(arr) - 1)))

sortByDistance(userLat, userLon, hawkers) ==
    StableSort([i \in DOMAIN hawkers |-> WithDistance(userLat, userLon, hawkers[i])])

(* getNearbyHawkersTool's ranking: sort, keep what lies within radius       *)
(* metres, cut to limit                                                     *)
findNearby_strict(latitude, longitude, radius, limit, allHawkers) ==
    LET within(h) == h.distance < radius * 1000
    IN  slice0(SelectSeq(sortByDistance(latitude, longitude, allHawkers), within), limit)

findNearby(latitude, longitude, radius, limit, allHawkers) ==
    LET within(h) == h.distance <= radius * 1000
    IN  slice0(SelectSeq(sortByDistance(latitude, longitude, allHawkers), within), limit)

-----------------------------------------------------------------------------
(* Tool results.  A tool returns a content result or raises; the dispatcher *)
(* turns a raise into a protocol error.  A text is a sequence of strings.   *)
Content(text) ==
    [kind |-> "content", code |-> "", message |-> <<>>,
     content |-> << [type |-> "text", text |-> text] >>]

Raised(message) ==
    [kind |-> "raise", code |-> "", message |-> message, content |-> <<>>]

McpError(code, message) ==
    [kind |-> "error", code |-> code, message |-> message, content |-> <<>>]

(* Tool arguments: args itself may be undefined; a number may be absent     *)
(* (<<>>), hawkerName may be Undefined                                      *)
UndefArgs ==
    [defined |-> FALSE, latitude |-> <<>>, longitude |-> <<>>, radius |-> <<>>,
     limit |-> <<>>, hawkerName |-> Undefined]

Args(lat, lon, radius, limit, hawkerName) ==
    [defined |-> TRUE, latitude |-> lat, longitude |-> lon, radius |-> radius,
     limit |-> limit, hawkerName |-> hawkerName]

(* A destructuring default: the default stands in for an absent value *)
OrDefault_none(opt, default) == IF opt = <<>> THEN 0 ELSE opt[1]

OrDefault(opt, default) == IF opt = <<>> THEN default ELSE opt[1]

(* Math.round of a distance held in millimetres, in metres *)
Round(mm) == (mm + 500) \div 1000

(* Array.prototype.join of texts *)
RECURSIVE join(_, _)
join(texts, sep) ==
    IF texts = <<>> THEN <<>>
    ELSE IF Len(texts) = 1 THEN texts[1]
    ELSE texts[1] \o sep \o join(Tail(texts), sep)

(* getNearbyHawkersTool *)
NearbyEntry(h, i) ==
    <<ToString(i), ". ">> \o h.hawker.name \o <<"\n", "   Address: ">>
       \o h.hawker.address
       \o <<"\n", "   Distance: ", ToString(Round(h.distance)), "m away\n",
            "   Stalls: ", ToString(h.hawker.stallCount), " cooked food stalls\n",
            "   Status: ">> \o h.hawker.status \o <<"\n">>

getNearbyHawkersTool(args, allHawkers) ==
    IF ~args.defined THEN Raised(<<"Cannot destructure property 'latitude'">>)
    ELSE IF allHawkers # <<>> /\ (args.latitude = <<>> \/ args.longitude = <<>>)
    THEN Raised(<<"coordinates must contain numbers">>)
    ELSE LET radius == OrDefault(args.radius, 2000)
             limit == OrDefault(args.limit, 10)
             nearby == IF allHawkers = <<>> THEN <<>>
                       ELSE findNearby(args.latitude[1], args.longitude[1], radius,
                                       limit, allHawkers)
         IN  Content(IF Len(nearby) > 0
                     THEN <<"Found ", ToString(Len(nearby)), " Hawker centres within ",
                            ToString(radius), "m:\n\n">>
                          \o join([i \in DOMAIN nearby |-> NearbyEntry(nearby[i], i)],
                                  <<"\n">>)
                     ELSE <<"No Hawker centres found within ", ToString(radius),
                            "m of your location.">>)

(* getClosuresTool *)
ClosureEntry(c) ==
    <<"* ">> \o c.quarter \o <<": ">> \o c.closureDates \o <<"\n  Reason: ">> \o c.reason

getClosuresTool_noSentence(args, allClosures) ==
    IF ~args.defined THEN Raised(<<"Cannot destructure property 'hawkerName'">>)
    ELSE IF allClosures # <<>> /\ args.hawkerName = Undefined
    THEN Raised(<<"Cannot read properties of undefined (reading 'toLowerCase')">>)
    ELSE LET matches(c) == includes(toLowerCase(c.name), toLowerCase(args.hawkerName))
             closures == SelectSeq(allClosures, matches)
         IN  Content(<<"Closure information for \"">> \o args.hawkerName
                     \o <<"\":\n\n">>
                     \o join([i \in DOMAIN closures |-> ClosureEntry(closures[i])],
                             <<"\n\n">>))

getClosuresTool_caseSensitive(args, allClosures) ==
    IF ~args.defined THEN Raised(<<"Cannot destructure property 'hawkerName'">>)
    ELSE IF allClosures # <<>> /\ args.hawkerName = Undefined
    THEN Raised(<<"Cannot read properties of undefined (reading 'toLowerCase')">>)
    ELSE LET matches(c) == includes(c.name, args.hawkerName)
             closures == SelectSeq(allClosures, matches)
         IN  IF Len(closures) = 0
             THEN Content(<<"No scheduled closures found for \"">> \o args.hawkerName
                          \o <<"\". It should be open as per the latest data.">>)
             ELSE Content(<<"Closure information for \"">> \o args.hawkerName
                          \o <<"\":\n\n">>
                          \o join([i \in DOMAIN closures |-> ClosureEntry(closures[i])],
                                  <<"\n\n">>))

getClosuresTool_blockPerRecord(args, allClosures) ==
    IF ~args.defined THEN Raised(<<"Cannot destructure property 'hawkerName'">>)
    ELSE IF allClosures # <<>> /\ args.hawkerName = Undefined
    THEN Raised(<<"Cannot read properties of undefined (reading 'toLowerCase')">>)
    ELSE LET matches(c) == includes(toLowerCase(c.name), toLowerCase(args.hawkerName))
             closures == SelectSeq(allClosures, matches)
         IN  [kind |-> "content", code |-> "", message |-> <<>>,
              content |-> [i \in DOMAIN closures |->
                              [type |-> "text", text |-> ClosureEntry(closures[i])]]]

getClosuresTool(args, allClosures) ==
    IF ~args.defined THEN Raised(<<"Cannot destructure property 'hawkerName'">>)
    ELSE IF allClosures # <<>> /\ args.hawkerName = Undefined
    THEN Raised(<<"Cannot read properties of undefined (reading 'toLowerCase')">>)
    ELSE LET matches(c) == includes(toLowerCase(c.name), toLowerCase(args.hawkerName))
             closures == SelectSeq(allClosures, matches)
         IN  IF Len(closures) = 0
             THEN Content(<<"No scheduled closures found for \"">> \o args.hawkerName
                          \o <<"\". It should be open as per the latest data.">>)
             ELSE Content(<<"Closure information for \"">> \o args.hawkerName
                          \o <<"\":\n\n">>
                          \o join([i \in DOMAIN closures |-> ClosureEntry(closures[i])],
                                  <<"\n\n">>))

(* Array.prototype.find over the indices of an array: the first index at    *)
(* which the test accepts, 0 if there is none, -1 if the test raises at an  *)
(* index before any it accepts                                              *)
FirstIndex(accepts, raises) ==
    LET hits == accepts \cup raises
    IN  IF hits = {} THEN 0
        ELSE IF Min(hits) \in raises THEN -1 ELSE Min(hits)

(* getHawkerDetailsTool *)
DetailsText(hawker) ==
    <<"Details for ">> \o hawker.name \o <<":\n\n", "Address: ">> \o hawker.address
       \o <<", Singapore ">> \o hawker.postalCode \o <<"\n", "Status: ">> \o hawker.status
       \o <<"\n", "Number of Stalls: ", ToString(hawker.stallCount),
            " cooked food stalls\n", "Coordinates: ", ToString(hawker.latitude), ", ",
            ToString(hawker.longitude), "\n">>
       \o (IF hawker.description # <<>>
           THEN <<"\nDescription: ">> \o hawker.description \o <<"\n">> ELSE <<>>)
       \o (IF hawker.photoUrl # <<>>
           THEN <<"\n![">> \o hawker.name \o <<"](">> \o hawker.photoUrl \o <<")">>
           ELSE <<>>)

getHawkerDetailsTool_substringOnly(args, allHawkers) ==
    IF ~args.defined THEN Raised(<<"Cannot destructure property 'hawkerName'">>)
    ELSE LET raises == {i \in DOMAIN allHawkers :
                           allHawkers[i].name = Undefined \/ args.hawkerName = Undefined}
             partial == {i \in DOMAIN allHawkers :
                            includes(toLowerCase(allHawkers[i].name),
                                     toLowerCase(args.hawkerName))}
             found == FirstIndex(partial, raises)
         IN  IF found = -1
             THEN Raised(<<"Cannot read properties of undefined (reading 'toLowerCase')">>)
             ELSE IF found = 0
             THEN Content(<<"Could not find details for \"">> \o args.hawkerName
                          \o <<"\". Please check the name and try again.">>)
             ELSE Content(DetailsText(allHawkers[found]))

getHawkerDetailsTool(args, allHawkers) ==
    IF ~args.defined THEN Raised(<<"Cannot destructure property 'hawkerName'">>)
    ELSE LET raises == {i \in DOMAIN allHawkers :
                           allHawkers[i].name = Undefined \/ args.hawkerName = Undefined}
             exact == {i \in DOMAIN allHawkers :
                          toLowerCase(allHawkers[i].name) = toLowerCase(args.hawkerName)}
             partial == {i \in DOMAIN allHawkers :
                            includes(toLowerCase(allHawkers[i].name),
                                     toLowerCase(args.hawkerName))}
             first == FirstIndex(exact, raises)
             second == FirstIndex(partial, raises)
             found == IF first # 0 THEN first ELSE second
         IN  IF found = -1
             THEN Raised(<<"Cannot read properties of undefined (reading 'toLowerCase')">>)
             ELSE IF found = 0
             THEN Content(<<"Could not find details for \"">> \o args.hawkerName
                          \o <<"\". Please check the name and try again.">>)
             ELSE Content(DetailsText(allHawkers[found]))

-----------------------------------------------------------------------------
(* The open-data gateway (services/data-gov-sg) *)
CACHE_DURATION == 86400000
CLOSURE_CACHE_DURATION == 3600000

Null == [set |-> FALSE, data |-> <<>>]
Cached(data) == [set |-> TRUE, data |-> data]

(* x || '' *)
OrEmpty(x) == IF x = Undefined THEN <<>> ELSE x

(* x || fallback, for a string *)
OrElse(x, fallback) == IF x = Undefined \/ x = <<>> THEN fallback ELSE x

(* `${x}` *)
Template(x) == IF x = Undefined THEN <<"undefined">> ELSE x

(* One feature of the GeoJSON payload to the hawker it is parsed into *)
parseFeature(feature) ==
    [name |-> feature.NAME,
     address |-> Template(feature.ADDRESSBLOCKHOUSENUMBER) \o <<" ">>
                    \o Template(feature.ADDRESSSTREETNAME),
     postalCode |-> OrEmpty(feature.ADDRESSPOSTALCODE),
     latitude |-> feature.lat,
     longitude |-> feature.lon,
     description |-> OrEmpty(feature.DESCRIPTION),
     status |-> OrElse(feature.STATUS, <<"Unknown">>),
     stallCount |-> OrDefault(feature.NUMBER_OF_COOKED_FOOD_STALLS, 0),
     photoUrl |-> OrEmpty(feature.PHOTOURL)]

(* One record of the closure feed to the closure it is parsed into *)
parseRecord(record) ==
    [name |-> OrEmpty(record.name),
     quarter |-> OrEmpty(record.quarter),
     closureDates |-> OrEmpty(record.closure_dates),
     reason |-> OrElse(record.reason, <<"Scheduled closure">>)]

(* The payloads the upstream feeds may deliver *)
Feature(name, block, street, postal, pt, description, status, stalls, photo) ==
    [wellFormed |-> TRUE, NAME |-> name, ADDRESSBLOCKHOUSENUMBER |-> block,
     ADDRESSSTREETNAME |-> street, ADDRESSPOSTALCODE |-> postal, lat |-> pt.lat,
     lon |-> pt.lon, DESCRIPTION |-> description, STATUS |-> status,
     NUMBER_OF_COOKED_FOOD_STALLS |-> stalls, PHOTOURL |-> photo]

FeatureA ==
    Feature(<<"A", "b">>, <<"1">>, <<"St">>, <<"0">>, PtA, <<"d">>, <<"Operational">>,
            <<10>>, <<"url">>)
FeatureB ==
    Feature(<<"B", "c">>, Undefined, Undefined, Undefined, PtB, Undefined, Undefined,
            <<>>, Undefined)
(* A feature without geometry or properties *)
FeatureBroken == [FeatureB EXCEPT !.wellFormed = FALSE]

HawkerFeeds == {<<>>, <<FeatureA, FeatureB>>, <<FeatureA, FeatureBroken>>}

RecordB ==
    [name |-> <<"B", "c">>, quarter |-> <<"Q1">>, closure_dates |-> <<"1 Jan">>,
     reason |-> <<"Cleaning">>]
RecordB2 ==
    [name |-> <<"a", "B", "c">>, quarter |-> <<"Q2">>, closure_dates |-> Undefined,
     reason |-> Undefined]

ClosureFeeds == {<<>>, <<RecordB, RecordB2>>}

Failures == {"notOk", "networkError", "badPayload"}
PollResponses == {"ok"} \cup Failures
DataResponses == [status : {"ok"}, body : HawkerFeeds]
                    \cup [status : Failures, body : {<<>>}]
ClosureResponses == [status : {"ok"}, body : ClosureFeeds]
                       \cup [status : Failures, body : {<<>>}]

(* What a fetch function hands to its caller: a collection, or a raise *)
Returns(data) == [raised |-> FALSE, data |-> data]
Raises == [raised |-> TRUE, data |-> <<>>]

(* fetchHawkerCentres, the test at its entry *)
hawkersFresh_inclusive ==
    cachedHawkers.set /\ now - cacheTimestamp <= CACHE_DURATION

hawkersFresh ==
    cachedHawkers.set /\ now - cacheTimestamp < CACHE_DURATION

(* fetchHawkerCentres, its catch block *)
hawkersCatch_empty == Returns(<<>>)

hawkersCatch_rethrow ==
    IF cachedHawkers.set /\ Len(cachedHawkers.data) > 0
    THEN Returns(cachedHawkers.data)
    ELSE Raises

hawkersCatch ==
    IF cachedHawkers.set /\ Len(cachedHawkers.data) > 0
    THEN Returns(cachedHawkers.data)
    ELSE Returns(<<>>)

(* fetchHawkerClosures, the test at its entry *)
closuresFresh_dayWindow ==
    cachedClosures.set /\ now - closureCacheTimestamp < CACHE_DURATION

closuresFresh ==
    cachedClosures.set /\ now - closureCacheTimestamp < CLOSURE_CACHE_DURATION

(* fetchHawkerClosures, its catch block *)
closuresCatch_stale ==
    IF cachedClosures.set /\ Len(cachedClosures.data) > 0
    THEN Returns(cachedClosures.data)
    ELSE Returns(<<>>)

closuresCatch == Returns(<<>>)

-----------------------------------------------------------------------------
(* The dispatcher (mcp-server/src/index.ts) *)
(* The tools that the ListToolsRequestSchema handler declares: their names  *)
(* and required parameters                                                  *)
tools_renamed ==
    << [name |-> "find-nearby", required |-> {"latitude", "longitude"}],
       [name |-> "check_hawker_closures", required |-> {"hawkerName"}],
       [name |-> "get_hawker_details", required |-> {"hawkerName"}] >>

tools ==
    << [name |-> "get_nearby_hawkers", required |-> {"latitude", "longitude"}],
       [name |-> "check_hawker_closures", required |-> {"hawkerName"}],
       [name |-> "get_hawker_details", required |-> {"hawkerName"}] >>

(* The names that the switch of the CallToolRequestSchema handler routes *)
ToolNames == {"get_nearby_hawkers", "check_hawker_closures", "get_hawker_details"}

UsesHawkers(name) == name \in {"get_nearby_hawkers", "get_hawker_details"}

(* The switch of the CallToolRequestSchema handler, given what the tool's   *)
(* fetch handed back                                                        *)
runTool(name, args, fetched) ==
    IF name \notin ToolNames
    THEN [kind |-> "raise", code |-> "MethodNotFound",
          message |-> <<"Unknown tool: ", name>>, content |-> <<>>]
    ELSE IF args.defined /\ fetched.raised
    THEN Raised(<<"Failed to fetch">>)
    ELSE CASE name = "get_nearby_hawkers" -> getNearbyHawkersTool(args, fetched.data)
           [] name = "check_hawker_closures" -> getClosuresTool(args, fetched.data)
           [] name = "get_hawker_details" -> getHawkerDetailsTool(args, fetched.data)

(* The catch block of the handler: an McpError is thrown on as it is, any   *)
(* other error is wrapped                                                   *)
callToolCatch_wrapAll(error) ==
    McpError("InternalError", <<"Tool execution failed: ">> \o error.message)

callToolCatch_asContent(error) ==
    IF error.code # ""
    THEN McpError(error.code, error.message)
    ELSE Content(<<"Tool execution failed: ">> \o error.message)

callToolCatch(error) ==
    IF error.code # ""
    THEN McpError(error.code, error.message)
    ELSE McpError("InternalError", <<"Tool execution failed: ">> \o error.message)

(* The outcome of the handler *)
CallToolResult(name, args, fetched) ==
    LET out == runTool(name, args, fetched)
    IN  IF out.kind = "raise" THEN callToolCatch(out) ELSE out

NoResult == [kind |-> "none", code |-> "", message |-> <<>>, content |-> <<>>]

IdleCall ==
    [pc |-> "idle", name |-> "", args |-> UndefArgs, data |-> <<>>, failed |-> FALSE,
     result |-> NoResult]

(* The handler of call s returns or throws: its fetch handed back fetched   *)
(* (failed: through the catch block)                                        *)
Complete(s, name, args, fetched, failed) ==
    calls' = [calls EXCEPT ![s] =
                 [pc |-> "done", name |-> name, args |-> args, data |-> fetched.data,
                  failed |-> failed, result |-> CallToolResult(name, args, fetched)]]

(* Bounds of the server model *)
MaxInvocations == 2
StartTime == 1000

Slots == 1..MaxInvocations

ArgsFull == Args(<<PtA.lat>>, <<PtA.lon>>, <<>>, <<>>, <<"b", "C">>)
ArgsNoName == Args(<<PtQ.lat>>, <<PtQ.lon>>, <<518>>, <<1>>, Undefined)
ArgChoices == {ArgsFull, ArgsNoName, UndefArgs}
NameChoices == ToolNames \cup {"find-nearby"}

(* Calls are numbered in the order in which they arrive *)
MayInvoke(s) == calls[s].pc = "idle" /\ \A t \in Slots : t < s => calls[t].pc # "idle"

(* A tools/call request arrives: the handler runs up to its first fetch *)
toolsCall(s, name, args) ==
    /\ MayInvoke(s)
    /\ IF name \notin ToolNames \/ ~args.defined
       THEN Complete(s, name, args, Returns(<<>>), FALSE)
       ELSE IF UsesHawkers(name)
       THEN IF hawkersFresh
            THEN Complete(s, name, args, Returns(cachedHawkers.data), FALSE)
            ELSE calls' = [calls EXCEPT ![s] =
                              [IdleCall EXCEPT !.pc = "poll", !.name = name, !.args = args]]
       ELSE IF closuresFresh
            THEN Complete(s, name, args, Returns(cachedClosures.data), FALSE)
            ELSE calls' = [calls EXCEPT ![s] =
                              [IdleCall EXCEPT !.pc = "closures", !.name = name,
                                               !.args = args]]
    /\ UNCHANGED <<now, cachedHawkers, cacheTimestamp, cachedClosures,
                   closureCacheTimestamp>>

(* A refresh that stamps the slot as soon as the poll-download step succeeds *)
pollResponse_stamp(s, response) ==
    /\ calls[s].pc = "poll"
    /\ IF response = "ok"
       THEN /\ calls' = [calls EXCEPT ![s].pc = "download"]
            /\ cacheTimestamp' = now
       ELSE /\ Complete(s, calls[s].name, calls[s].args, hawkersCatch, TRUE)
            /\ UNCHANGED cacheTimestamp
    /\ UNCHANGED <<now, cachedHawkers, cachedClosures, closureCacheTimestamp>>

(* A refresh that remembers its failure: it stamps the slot when the        *)
(* poll-download step fails                                                 *)
pollResponse_backoff(s, response) ==
    /\ calls[s].pc = "poll"
    /\ IF response = "ok"
       THEN /\ calls' = [calls EXCEPT ![s].pc = "download"]
            /\ UNCHANGED cacheTimestamp
       ELSE /\ Complete(s, calls[s].name, calls[s].args, hawkersCatch, TRUE)
            /\ cacheTimestamp' = now
    /\ UNCHANGED <<now, cachedHawkers, cachedClosures, closureCacheTimestamp>>

(* fetchHawkerCentres, step 1: the poll-download response arrives *)
pollResponse(s, response) ==
    /\ calls[s].pc = "poll"
    /\ IF response = "ok"
       THEN calls' = [calls EXCEPT ![s].pc = "download"]
       ELSE Complete(s, calls[s].name, calls[s].args, hawkersCatch, TRUE)
    /\ UNCHANGED <<now, cachedHawkers, cacheTimestamp, cachedClosures,
                   closureCacheTimestamp>>

(* A refresh that stores the collection and leaves the timestamp *)
dataResponse_dataOnly(s, response) ==
    /\ calls[s].pc = "download"
    /\ IF response.status = "ok"
          /\ \A i \in DOMAIN response.body : response.body[i].wellFormed
       THEN LET hawkers == [i \in DOMAIN response.body |-> parseFeature(response.body[i])]
            IN  /\ cachedHawkers' = Cached(hawkers)
                /\ UNCHANGED cacheTimestamp
                /\ Complete(s, calls[s].name, calls[s].args, Returns(hawkers), FALSE)
       ELSE /\ Complete(s, calls[s].name, calls[s].args, hawkersCatch, TRUE)
            /\ UNCHANGED <<cachedHawkers, cacheTimestamp>>
    /\ UNCHANGED <<now, cachedClosures, closureCacheTimestamp>>

(* fetchHawkerCentres, steps 2 and 3: the GeoJSON response arrives and is   *)
(* parsed                                                                   *)
dataResponse(s, response) ==
    /\ calls[s].pc = "download"
    /\ IF response.status = "ok"
          /\ \A i \in DOMAIN response.body : response.body[i].wellFormed
       THEN LET hawkers == [i \in DOMAIN response.body |-> parseFeature(response.body[i])]
            IN  /\ cachedHawkers' = Cached(hawkers)
                /\ cacheTimestamp' = now
                /\ Complete(s, calls[s].name, calls[s].args, Returns(hawkers), FALSE)
       ELSE /\ Complete(s, calls[s].name, calls[s].args, hawkersCatch, TRUE)
            /\ UNCHANGED <<cachedHawkers, cacheTimestamp>>
    /\ UNCHANGED <<now, cachedClosures, closureCacheTimestamp>>

(* A closures refresh that also empties the hawker slot *)
closuresResponse_bothSlots(s, response) ==
    /\ calls[s].pc = "closures"
    /\ IF response.status = "ok"
       THEN LET closures == [i \in DOMAIN response.body |-> parseRecord(response.body[i])]
            IN  /\ cachedClosures' = Cached(closures)
                /\ closureCacheTimestamp' = now
                /\ cachedHawkers' = Null
                /\ cacheTimestamp' = 0
                /\ Complete(s, calls[s].name, calls[s].args, Returns(closures), FALSE)
       ELSE /\ Complete(s, calls[s].name, calls[s].args, closuresCatch, TRUE)
            /\ UNCHANGED <<cachedClosures, closureCacheTimestamp, cachedHawkers,
                           cacheTimestamp>>
    /\ UNCHANGED now

(* fetchHawkerClosures: the datastore_search response arrives *)
closuresResponse(s, response) ==
    /\ calls[s].pc = "closures"
    /\ IF response.status = "ok"
       THEN LET closures == [i \in DOMAIN response.body |-> parseRecord(response.body[i])]
            IN  /\ cachedClosures' = Cached(closures)
                /\ closureCacheTimestamp' = now
                /\ Complete(s, calls[s].name, calls[s].args, Returns(closures), FALSE)
       ELSE /\ Complete(s, calls[s].name, calls[s].args, closuresCatch, TRUE)
            /\ UNCHANGED <<cachedClosures, closureCacheTimestamp>>
    /\ UNCHANGED <<now, cachedHawkers, cacheTimestamp>>

(* Time passes, up to the last instant at which a cache slot is fresh or    *)
(* the first at which it is not                                             *)
Instants ==
    (IF cachedHawkers.set
     THEN {cacheTimestamp + CACHE_DURATION - 1, cacheTimestamp + CACHE_DURATION}
     ELSE {})
    \cup (IF cachedClosures.set
          THEN {closureCacheTimestamp + CLOSURE_CACHE_DURATION - 1,
                closureCacheTimestamp + CLOSURE_CACHE_DURATION}
          ELSE {})

timePasses ==
    /\ \E t \in Instants : t > now /\ now' = t
    /\ UNCHANGED <<cachedHawkers, cacheTimestamp, cachedClosures, closureCacheTimestamp,
                   calls>>

ServerInit ==
    /\ now = StartTime
    /\ cachedHawkers = Null
    /\ cacheTimestamp = 0
    /\ cachedClosures = Null
    /\ closureCacheTimestamp = 0
    /\ calls = [s \in Slots |-> IdleCall]

ServerNext ==
    \/ \E s \in Slots, name \in NameChoices, args \in ArgChoices : toolsCall(s, name, args)
    \/ \E s \in Slots, response \in PollResponses : pollResponse(s, response)
    \/ \E s \in Slots, response \in DataResponses : dataResponse(s, response)
    \/ \E s \in Slots, response \in ClosureResponses : closuresResponse(s, response)
    \/ timePasses

-----------------------------------------------------------------------------
(* The ranker alone: its inputs are drawn in the initial state *)
MaxLen == 3

Hawker(name, pt, stalls) ==
    [name |-> name, address |-> <<"1", " ", "St">>, postalCode |-> <<"0">>,
     latitude |-> pt.lat, longitude |-> pt.lon, description |-> <<>>,
     status |-> <<"Operational">>, stallCount |-> stalls, photoUrl |-> <<>>]

HawkerA == Hawker(<<"A", "b">>, PtA, 10)
HawkerB == Hawker(<<"B", "c">>, PtB, 20)
HawkerB2 == Hawker(<<"a", "B", "c">>, PtB, 0)
HawkerF == Hawker(<<"C">>, PtF, 5)

SomeHawkers == {HawkerA, HawkerB, HawkerB2, HawkerF}

SeqsUpTo(S, n) == UNION {[1..k -> S] : k \in 0..n}

QueryPoints == {PtA, PtQ}
Radii == {0, 518, 2000, 20000}
Limits == {-1, 0, 1, 2, 10}

NoRanking == [done |-> FALSE, nearby |-> <<>>]

RankInit ==
    /\ rankIn \in [at : QueryPoints, radius : Radii, limit : Limits,
                   allHawkers : SeqsUpTo(SomeHawkers, MaxLen)]
    /\ rankOut = NoRanking

RankIdle ==
    /\ rankIn = [at |-> PtA, radius |-> 2000, limit |-> 10, allHawkers |-> <<>>]
    /\ rankOut = NoRanking

rank ==
    /\ ~rankOut.done
    /\ rankOut' = [done |-> TRUE,
                   nearby |-> findNearby(rankIn.at.lat, rankIn.at.lon, rankIn.radius,
                                         rankIn.limit, rankIn.allHawkers)]
    /\ UNCHANGED <<rankIn, bridgeVars, serverVars, toolVars, parseVars, distVars, chunkVars>>

-----------------------------------------------------------------------------
(* One tool call alone: the tool is a function of its arguments and of the  *)
(* collection its fetch hands back.  The call is made at the dispatcher, or *)
(* through the bridge helper of its tool.                                   *)
Closure(name, quarter, closureDates, reason) ==
    [name |-> name, quarter |-> quarter, closureDates |-> closureDates,
     reason |-> reason]

ClosureA == Closure(<<"A", "b">>, <<"Q3">>, <<"2 Feb">>, <<"Repairs">>)
ClosureB == Closure(<<"B", "c">>, <<"Q1">>, <<"1 Jan">>, <<"Cleaning">>)
ClosureB2 == Closure(<<"a", "B", "c">>, <<"Q2">>, <<>>, <<"Scheduled closure">>)

SomeClosures == {ClosureA, ClosureB, ClosureB2}

Subjects == {<<"b", "C">>, <<"B", "c">>, <<"c">>, <<"z">>, <<>>, Undefined}

Vias == {"dispatcher", "bridge"}

NearbyArgs ==
    {Args(<<p.lat>>, <<p.lon>>, r, l, Undefined) :
        p \in QueryPoints, r \in {<<>>, <<518>>, <<2000>>},
        l \in {<<>>, <<-1>>, <<0>>, <<1>>, <<10>>}}

SubjectArgs == {Args(<<>>, <<>>, <<>>, <<>>, subject) : subject \in Subjects}

ToolInputs ==
    [via : Vias, name : {"get_nearby_hawkers"}, args : NearbyArgs,
     data : SeqsUpTo(SomeHawkers, MaxLen)]
    \cup [via : Vias, name : {"get_hawker_details"}, args : SubjectArgs,
          data : SeqsUpTo(SomeHawkers, MaxLen)]
    \cup [via : Vias, name : {"check_hawker_closures"}, args : SubjectArgs,
          data : SeqsUpTo(SomeClosures, MaxLen)]

(* x ?? fallback, for an optional number *)
Coalesce(opt, fallback) == IF opt = <<>> THEN <<fallback>> ELSE opt

(* The arguments that the bridge helpers getNearbyHawkers,                  *)
(* checkHawkerClosures and getHawkerDetails pass to callTool                *)
helperArguments(name, args) ==
    IF name = "get_nearby_hawkers"
    THEN Args(args.latitude, args.longitude, Coalesce(args.radius, 2000),
              Coalesce(args.limit, 10), Undefined)
    ELSE Args(<<>>, <<>>, <<>>, <<>>, args.hawkerName)

NoOutcome == [done |-> FALSE, sent |-> UndefArgs, result |-> NoResult, text |-> <<>>]

(* What the caller holds when the call is over: the text of the first       *)
(* content block at the bridge helper (a failed call rejects and hands over *)
(* no text)                                                                 *)
Outcome(sent, result, text) ==
    [done |-> TRUE, sent |-> sent, result |-> result, text |-> text]

ToolInit ==
    /\ toolIn \in ToolInputs
    /\ toolOut = NoOutcome

ToolIdle ==
    /\ toolIn = [via |-> "dispatcher", name |-> "get_nearby_hawkers",
                 args |-> Args(<<PtA.lat>>, <<PtA.lon>>, <<>>, <<>>, Undefined),
                 data |-> <<>>]
    /\ toolOut = NoOutcome

(* A tools/call request handled by the dispatcher *)
dispatch ==
    /\ toolIn.via = "dispatcher"
    /\ ~toolOut.done
    /\ toolOut' = Outcome(toolIn.args,
                          CallToolResult(toolIn.name, toolIn.args, Returns(toolIn.data)),
                          <<>>)
    /\ UNCHANGED toolIn

(* A call of the bridge helper of the tool *)
helper ==
    /\ toolIn.via = "bridge"
    /\ ~toolOut.done
    /\ LET sent == helperArguments(toolIn.name, toolIn.args)
           response == CallToolResult(toolIn.name, sent, Returns(toolIn.data))
       IN  toolOut' = Outcome(sent, response,
                              IF response.kind = "content"
                              THEN response.content[1].text ELSE <<>>)
    /\ UNCHANGED toolIn

-----------------------------------------------------------------------------
(* The parsing of one feed entry alone: each property of the entry is       *)
(* present or absent                                                        *)
Optional(str) == {Undefined, str}

Features ==
    {Feature(name, block, street, postal, PtA, description, status, stalls, photo) :
        name \in Optional(<<"A", "b">>), block \in Optional(<<"1">>),
        street \in Optional(<<"St">>), postal \in Optional(<<"0">>),
        description \in Optional(<<"d">>), status \in Optional(<<"Operational">>),
        stalls \in {<<>>, <<0>>, <<10>>}, photo \in Optional(<<"url">>)}

Records ==
    [name : Optional(<<"B", "c">>), quarter : Optional(<<"Q1">>),
     closure_dates : Optional(<<"1 Jan">>), reason : Optional(<<"Cleaning">>)]

NotParsed == [done |-> FALSE, value |-> <<>>]

ParseInit ==
    /\ parseIn \in [kind : {"feature"}, raw : Features]
                      \cup [kind : {"record"}, raw : Records]
    /\ parseOut = NotParsed

ParseIdle ==
    /\ parseIn = [kind |-> "feature", raw |-> FeatureA]
    /\ parseOut = NotParsed

(* The callback of geojson.features.map *)
parseHawker ==
    /\ parseIn.kind = "feature"
    /\ ~parseOut.done
    /\ parseOut' = [done |-> TRUE, value |-> parseFeature(parseIn.raw)]
    /\ UNCHANGED parseIn

(* The callback of data.result.records.map *)
parseClosure ==
    /\ parseIn.kind = "record"
    /\ ~parseOut.done
    /\ parseOut' = [done |-> TRUE, value |-> parseRecord(parseIn.raw)]
    /\ UNCHANGED parseIn

-----------------------------------------------------------------------------
(* The distance of two points, as a function of the points *)
Points == {PtA, PtB, PtF, PtQ, PtC, PtD}

NotMeasured == <<>>

DistInit ==
    /\ distIn \in [from : Points, to : Points]
    /\ distOut = [there |-> NotMeasured, back |-> NotMeasured]

DistIdle ==
    /\ distIn = [from |-> PtA, to |-> PtA]
    /\ distOut = [there |-> NotMeasured, back |-> NotMeasured]

(* calculateDistance from the first point to the second *)
measure ==
    /\ distOut.there = NotMeasured
    /\ distOut' = [distOut EXCEPT !.there =
           calculateDistance(distIn.from.lat, distIn.from.lon, distIn.to.lat, distIn.to.lon)]
    /\ UNCHANGED distIn

(* calculateDistance from the second point to the first *)
measureBack ==
    /\ distOut.back = NotMeasured
    /\ distOut' = [distOut EXCEPT !.back =
           calculateDistance(distIn.to.lat, distIn.to.lon, distIn.from.lat, distIn.from.lon)]
    /\ UNCHANGED distIn

-----------------------------------------------------------------------------
(* The 'data' listener on a child's stdout, fed the child's bytes in chunks *)

(* Bounds of the stream model *)
MaxLines == 2
MaxChunk == 6

(* Buffer.toString() of one chunk: "c1" "c2" are the two bytes of one       *)
(* character "E"; a byte of it that the chunk holds without the other is    *)
(* decoded to the replacement character "?"                                 *)
RECURSIVE toString(_)
toString(bytes) ==
    IF bytes = <<>> THEN <<>>
    ELSE IF Len(bytes) >= 2 /\ bytes[1] = "c1" /\ bytes[2] = "c2"
    THEN <<"E">> \o toString(SubSeq(bytes, 3, Len(bytes)))
    ELSE IF bytes[1] \in {"c1", "c2"}
    THEN <<"?">> \o toString(Tail(bytes))
    ELSE <<bytes[1]>> \o toString(Tail(bytes))

(* String.prototype.split('\n') *)
RECURSIVE split(_)
split(str) ==
    IF \A i \in DOMAIN str : str[i] # "\n" THEN <<str>>
    ELSE LET i == Min({j \in DOMAIN str : str[j] = "\n"})
         IN  <<SubSeq(str, 1, i - 1)>> \o split(SubSeq(str, i + 1, Len(str)))

(* String.prototype.trim *)
RECURSIVE trim(_)
trim(str) ==
    IF str = <<>> THEN <<>>
    ELSE IF Head(str) = " " THEN trim(Tail(str))
    ELSE IF str[Len(str)] = " " THEN trim(SubSeq(str, 1, Len(str) - 1))
    ELSE str

(* JSON.parse of a line. The JSON texts of the model are                    *)
(*   { id text }   a response with a result, text any characters of "E?"    *)
(*   { id e }      a response with an error                                 *)
(*   { }           an object without id                                     *)
(* everything else throws.                                                  *)
Invalid == [valid |-> FALSE, hasId |-> FALSE, id |-> 0, error |-> FALSE]
Digit(ch) == IF ch = "1" THEN 1 ELSE IF ch = "2" THEN 2 ELSE 0

JSONparse(line) ==
    LET t == trim(line)
        n == Len(t)
    IN  IF n < 2 \/ t[1] # "{" \/ t[n] # "}" THEN Invalid
        ELSE IF n = 2 THEN [valid |-> TRUE, hasId |-> FALSE, id |-> 0, error |-> FALSE]
        ELSE IF Digit(t[2]) = 0 THEN Invalid
        ELSE IF n = 4 /\ t[3] = "e"
        THEN [valid |-> TRUE, hasId |-> TRUE, id |-> Digit(t[2]), error |-> TRUE]
        ELSE IF \A i \in 3..(n - 1) : t[i] \in {"E", "?"}
        THEN [valid |-> TRUE, hasId |-> TRUE, id |-> Digit(t[2]), error |-> FALSE]
        ELSE Invalid

(* The message object of a parsed line, as handleMessage reads it *)
MessageOf(parsed) ==
    [id |-> parsed.id, error |-> parsed.error,
     text |-> IF parsed.error THEN "Tool execution failed" ELSE "result",
     arg |-> parsed.id]

(* MCPClient.handleMessage on the state st of the pending map and the       *)
(* completions                                                              *)
handleMessageOn(st, parsed) ==
    IF parsed.hasId /\ parsed.id \in st.pending
    THEN LET message == MessageOf(parsed)
         IN  [st EXCEPT !.pending = @ \ {message.id},
                        !.completion = Settle(@, message.id,
                            IF message.error
                            THEN Rejected(IF message.text # "" THEN message.text
                                          ELSE "MCP error", message.arg)
                            ELSE Resolved(message.text, message.arg))]
    ELSE st

(* The loop over the complete lines: a line that is not blank is parsed and *)
(* handed to handleMessage; a line that does not parse is logged            *)
RECURSIVE forLines(_, _)
forLines(lines, st) ==
    IF lines = <<>> THEN st
    ELSE LET line == Head(lines)
             parsed == JSONparse(line)
         IN  forLines(Tail(lines),
                 IF trim(line) # <<>> /\ parsed.valid
                 THEN [handleMessageOn(st, parsed) EXCEPT !.handled = Append(@, parsed)]
                 ELSE st)

(* A listener that hands over the unfinished last line as well *)
stdoutChunk_noBuffer(n) ==
    /\ arrived + n <= Len(chunkIn)
    /\ LET data == SubSeq(chunkIn, arrived + 1, arrived + n)
           lines == split(buffer \o toString(data))
           st == forLines(lines, [pending |-> pendingRequests, completion |-> completion,
                                  handled |-> handled])
       IN  /\ buffer' = <<>>
           /\ pendingRequests' = st.pending
           /\ completion' = st.completion
           /\ handled' = st.handled
    /\ arrived' = arrived + n
    /\ UNCHANGED <<chunkIn, process, messageId, req, pc, callerReq, timeLeft,
                   spawned, childState, stdin, stdout, writeFail>>

(* The 'data' listener, called with the next n bytes of the child's output *)
stdoutChunk(n) ==
    /\ arrived + n <= Len(chunkIn)
    /\ LET data == SubSeq(chunkIn, arrived + 1, arrived + n)
           parts == split(buffer \o toString(data))
           lines == SubSeq(parts, 1, Len(parts) - 1)
           st == forLines(lines, [pending |-> pendingRequests, completion |-> completion,
                                  handled |-> handled])
       IN  /\ buffer' = parts[Len(parts)]
           /\ pendingRequests' = st.pending
           /\ completion' = st.completion
           /\ handled' = st.handled
    /\ arrived' = arrived + n
    /\ UNCHANGED <<chunkIn, process, messageId, req, pc, callerReq, timeLeft,
                   spawned, childState, stdin, stdout, writeFail>>

(* What a child may write: up to MaxLines lines, each ended by a newline,   *)
(* and possibly the beginning of a further line                             *)
LineTexts ==
    { <<"{", "1", "}">>, <<"{", "1", "e", "}">>, <<"{", "2", "c1", "c2", "}">>,
      <<"{", "}">>, <<"{", "1">>, <<"x">>, <<>>, <<" ">>, <<" ", "{", "2", "}", " ">> }

RECURSIVE StreamsOf(_)
StreamsOf(n) ==
    IF n = 0 THEN {<<>>}
    ELSE LET shorter == StreamsOf(n - 1)
         IN  shorter \cup {s \o l \o <<"\n">> : s \in shorter, l \in LineTexts}

Streams == {s \o tail : s \in StreamsOf(MaxLines), tail \in {<<>>, <<"{", "1", "}">>}}

(* The bridge with requests 1 and 2 written to child 1, which has read them *)
ChunkBridgeInit ==
    /\ process = 1
    /\ messageId = 2
    /\ pendingRequests = {1, 2}
    /\ completion = [id \in Ids |-> IF id <= 2 THEN Unsettled ELSE NoPromise]
    /\ req = [id \in Ids |-> IF id <= 2 THEN [arg |-> id, child |-> 1] ELSE NoReq]
    /\ pc = [c \in Callers |-> IF c <= 2 THEN "sent" ELSE "idle"]
    /\ callerReq = [c \in Callers |-> IF c <= 2 THEN c ELSE 0]
    /\ timeLeft = [id \in Ids |-> IF id <= 2 THEN REQUEST_TIMEOUT ELSE -1]
    /\ spawned = 1
    /\ childState = [k \in Children |-> IF k = 1 THEN "running" ELSE "none"]
    /\ stdin = {}
    /\ stdout = {}
    /\ writeFail = {}

ChunkInit ==
    /\ chunkIn \in Streams
    /\ arrived = 0
    /\ buffer = <<>>
    /\ handled = <<>>

ChunkIdle ==
    /\ chunkIn = <<>>
    /\ arrived = 0
    /\ buffer = <<>>
    /\ handled = <<>>

-----------------------------------------------------------------------------
(* The specifications *)
Init == BridgeInit /\ ServerInit /\ RankIdle /\ ToolIdle /\ ParseIdle /\ DistIdle /\ ChunkIdle

Next == BridgeNext /\ UNCHANGED <<serverVars, rankVars, toolVars, parseVars, distVars, chunkVars>>

Spec == Init /\ [][Next]_vars

NextServer == ServerNext /\ UNCHANGED <<bridgeVars, rankVars, toolVars, parseVars, distVars, chunkVars>>

(* Timers: time goes on while a timeout is armed, and a timeout that is due *)
(* runs its callback (setTimeout on the event loop)                         *)
TimersRun ==
    /\ WF_vars(tick /\ UNCHANGED <<serverVars, rankVars, toolVars, parseVars, distVars, chunkVars>>)
    /\ \A id \in Ids :
           WF_vars(timeoutCallback(id)
                      /\ UNCHANGED <<serverVars, rankVars, toolVars, parseVars, distVars, chunkVars>>)

SpecTimers == Spec /\ TimersRun

InitRelaunch ==
    RelaunchInit /\ ServerInit /\ RankIdle /\ ToolIdle /\ ParseIdle /\ DistIdle /\ ChunkIdle

SpecRelaunch == InitRelaunch /\ [][Next]_vars

SpecServer == Init /\ [][NextServer]_vars

InitRank == BridgeInit /\ ServerInit /\ RankInit /\ ToolIdle /\ ParseIdle /\ DistIdle /\ ChunkIdle

SpecRank == InitRank /\ [][rank]_vars

InitTools == BridgeInit /\ ServerInit /\ RankIdle /\ ToolInit /\ ParseIdle /\ DistIdle /\ ChunkIdle

NextTools ==
    (dispatch \/ helper)
        /\ UNCHANGED <<bridgeVars, serverVars, rankVars, parseVars, distVars, chunkVars>>

SpecTools == InitTools /\ [][NextTools]_vars

InitParse == BridgeInit /\ ServerInit /\ RankIdle /\ ToolIdle /\ ParseInit /\ DistIdle /\ ChunkIdle

NextParse ==
    (parseHawker \/ parseClosure)
        /\ UNCHANGED <<bridgeVars, serverVars, rankVars, toolVars, distVars, chunkVars>>

SpecParse == InitParse /\ [][NextParse]_vars

InitDistance ==
    BridgeInit /\ ServerInit /\ RankIdle /\ ToolIdle /\ ParseIdle /\ DistInit /\ ChunkIdle

NextDistance ==
    (measure \/ measureBack)
        /\ UNCHANGED <<bridgeVars, serverVars, rankVars, toolVars, parseVars, chunkVars>>

SpecDistance == InitDistance /\ [][NextDistance]_vars

InitChunks ==
    ChunkBridgeInit /\ ServerInit /\ RankIdle /\ ToolIdle /\ ParseIdle /\ DistIdle
        /\ ChunkInit

NextChunks ==
    (\E n \in 1..MaxChunk : stdoutChunk(n))
        /\ UNCHANGED <<serverVars, rankVars, toolVars, parseVars, distVars>>

SpecChunks == InitChunks /\ [][NextChunks]_vars

-----------------------------------------------------------------------------
(* Claims about the tool server, checked under SpecServer *)

(* The step in which the fetch of call s fails and its handler finishes *)
FetchFails(s) ==
    /\ calls[s].pc \in {"poll", "download", "closures"}
    /\ calls'[s].pc = "done"
    /\ calls'[s].failed

(* C4: when a fetch of the hawker feed fails, at the poll step or at the    *)
(* download step, and an earlier successful fetch has populated the cache,  *)
(* fetchHawkerCentres hands back the cached collection, however old it is,  *)
(* and does not raise: the cache is left as it is, the tool runs on the     *)
(* cached collection, and get_nearby_hawkers answers with the ranking       *)
(* computed from it.                                                        *)
C4_StaleStep ==
    \A s \in Slots :
        FetchFails(s) /\ calls[s].pc # "closures" /\ cachedHawkers.set =>
            /\ calls'[s].data = cachedHawkers.data
            /\ UNCHANGED <<cachedHawkers, cacheTimestamp>>
            /\ calls'[s].result
                  = CallToolResult(calls[s].name, calls[s].args, Returns(cachedHawkers.data))
            /\ calls[s].name = "get_nearby_hawkers" =>
                  calls'[s].result
                     = getNearbyHawkersTool(calls[s].args, cachedHawkers.data)

C4_StaleServing == [][C4_StaleStep]_vars

(* A get_nearby_hawkers call whose fetch failed when the cache was past its *)
(* freshness window, answered with a ranking of the cached entries          *)
C4_Witness ==
    \E s \in Slots :
        /\ calls[s].pc = "done"
        /\ calls[s].failed
        /\ calls[s].name = "get_nearby_hawkers"
        /\ cachedHawkers.set
        /\ now - cacheTimestamp >= CACHE_DURATION
        /\ calls[s].data = cachedHawkers.data
        /\ Len(calls[s].data) = 2
        /\ calls[s].result.kind = "content"
        /\ Head(calls[s].result.content[1].text) = "Found "

(* C5: a failed fetch of either feed never reaches the caller as an error.  *)
(* The fetch functions do not raise: the tool runs on the collection that   *)
(* the fetch handed back.  With no usable cache (the closure feed always;   *)
(* the hawker feed when the cache is null or empty) that collection is      *)
(* empty and the call returns the content result of an empty dataset.       *)
C5_State ==
    \A s \in Slots :
        calls[s].pc = "done" /\ calls[s].failed =>
            /\ calls[s].result
                  = CallToolResult(calls[s].name, calls[s].args, Returns(calls[s].data))
            /\ calls[s].data = <<>> => calls[s].result.kind = "content"

C5_Step ==
    \A s \in Slots :
        /\ FetchFails(s)
        /\ calls[s].pc = "closures" \/ ~cachedHawkers.set \/ cachedHawkers.data = <<>>
        => /\ calls'[s].data = <<>>
           /\ calls'[s].result.kind = "content"
           /\ calls'[s].result
                 = CallToolResult(calls[s].name, calls[s].args, Returns(<<>>))

C5_FailureNotSurfaced == []C5_State /\ [][C5_Step]_vars

(* Failed fetches with no usable cache, one of each feed *)
C5_Witness ==
    \E s, t \in Slots :
        /\ calls[s].pc = "done" /\ calls[s].failed
        /\ calls[s].name = "check_hawker_closures"
        /\ calls[s].result.kind = "content"
        /\ calls[t].pc = "done" /\ calls[t].failed
        /\ UsesHawkers(calls[t].name)
        /\ calls[t].data = <<>>
        /\ calls[t].result.kind = "content"

(* C6: a call whose tool name is not one of the three registered names      *)
(* fails with the MethodNotFound error 'Unknown tool: <name>', which is not *)
(* wrapped as an internal error; it never returns content, and it finishes  *)
(* in the step in which it arrives, with no tool run and no fetch begun.    *)
C6_State ==
    \A s \in Slots :
        calls[s].pc # "idle" /\ calls[s].name \notin ToolNames =>
            /\ calls[s].pc = "done"
            /\ ~calls[s].failed
            /\ calls[s].result = McpError("MethodNotFound", <<"Unknown tool: ", calls[s].name>>)
            /\ calls[s].result.content = <<>>

C6_Step ==
    \A s \in Slots :
        calls[s].pc = "idle" /\ calls'[s].pc # "idle" /\ calls'[s].name \notin ToolNames =>
            /\ calls'[s].pc = "done"
            /\ UNCHANGED <<cachedHawkers, cacheTimestamp, cachedClosures,
                           closureCacheTimestamp>>

C6_UnknownTool == []C6_State /\ [][C6_Step]_vars

C6_Witness ==
    \E s \in Slots :
        /\ calls[s].pc = "done"
        /\ calls[s].name = "find-nearby"
        /\ calls[s].result.code = "MethodNotFound"

(* C7: when the tool of a call raises, the call fails with the InternalError *)
(* error whose message is 'Tool execution failed: ' followed by the message  *)
(* of what was raised, and the call returns no content.                      *)
C7_RaiseIsInternalError ==
    \A s \in Slots :
        calls[s].pc = "done" /\ calls[s].name \in ToolNames =>
            LET out == runTool(calls[s].name, calls[s].args, Returns(calls[s].data))
            IN  out.kind = "raise" =>
                   /\ calls[s].result.kind = "error"
                   /\ calls[s].result.code = "InternalError"
                   /\ calls[s].result.message = <<"Tool execution failed: ">> \o out.message
                   /\ calls[s].result.content = <<>>

(* A tool that raised after its fetch: hawkerName is missing and the        *)
(* collection is not empty                                                  *)
C7_Witness ==
    \E s \in Slots :
        /\ calls[s].pc = "done"
        /\ calls[s].name \in ToolNames
        /\ calls[s].args = ArgsNoName
        /\ calls[s].data # <<>>
        /\ calls[s].result.code = "InternalError"

(* C8: every call that ends with a content result, whichever tool and       *)
(* branch produced it, holds exactly one content block, of type 'text'.     *)
C8_OneTextBlock ==
    \A s \in Slots :
        calls[s].pc = "done" /\ calls[s].result.kind = "content" =>
            /\ Len(calls[s].result.content) = 1
            /\ calls[s].result.content[1].type = "text"

(* A closure check that found two records, and a details lookup that found  *)
(* its subject                                                              *)
C8_Witness ==
    \E s, t \in Slots :
        /\ calls[s].pc = "done"
        /\ calls[s].name = "check_hawker_closures"
        /\ Len(calls[s].data) = 2
        /\ calls[s].result.kind = "content"
        /\ Head(calls[s].result.content[1].text) = "Closure information for \""
        /\ calls[t].pc = "done"
        /\ calls[t].name = "get_hawker_details"
        /\ calls[t].result.kind = "content"
        /\ Head(calls[t].result.content[1].text) = "Details for "

(* The step in which call s arrives and its tool reaches its fetch function *)
Fetches(s) ==
    /\ calls[s].pc = "idle"
    /\ calls'[s].pc # "idle"
    /\ calls'[s].name \in ToolNames
    /\ calls'[s].args.defined

(* C16: fetchHawkerCentres goes to the upstream feed exactly when its cache *)
(* slot is null or the cached data is 24 hours old or older; while the data *)
(* is younger, every invocation hands back the cached collection and makes  *)
(* no upstream request.                                                     *)
C16_Step ==
    \A s \in Slots :
        Fetches(s) /\ UsesHawkers(calls'[s].name) =>
            /\ calls'[s].pc = "poll"
                  <=> ~cachedHawkers.set \/ now - cacheTimestamp >= CACHE_DURATION
            /\ calls'[s].pc # "poll" =>
                  /\ calls'[s].pc = "done"
                  /\ ~calls'[s].failed
                  /\ calls'[s].data = cachedHawkers.data
                  /\ UNCHANGED <<cachedHawkers, cacheTimestamp>>

C16_State ==
    \A s \in Slots :
        calls[s].pc \in {"poll", "download"} => UsesHawkers(calls[s].name)

C16_HawkerWindow == []C16_State /\ [][C16_Step]_vars

(* A fetch begun when the cached data is exactly 24 hours old, after an     *)
(* earlier call was answered with that data                                 *)
C16_Witness ==
    /\ cachedHawkers.set
    /\ now - cacheTimestamp = CACHE_DURATION
    /\ \E s, t \in Slots :
          /\ s < t
          /\ calls[s].pc = "done" /\ UsesHawkers(calls[s].name) /\ ~calls[s].failed
          /\ calls[s].data = cachedHawkers.data
          /\ calls[t].pc = "poll"

(* C17: fetchHawkerClosures goes to the upstream feed exactly when its      *)
(* cache slot is null or the cached data is 1 hour old or older: the logic  *)
(* of the hawker pipeline, with a window of its own.                        *)
C17_Step ==
    \A s \in Slots :
        Fetches(s) /\ ~UsesHawkers(calls'[s].name) =>
            /\ calls'[s].pc = "closures"
                  <=> \/ ~cachedClosures.set
                      \/ now - closureCacheTimestamp >= CLOSURE_CACHE_DURATION
            /\ calls'[s].pc # "closures" =>
                  /\ calls'[s].pc = "done"
                  /\ ~calls'[s].failed
                  /\ calls'[s].data = cachedClosures.data
                  /\ UNCHANGED <<cachedClosures, closureCacheTimestamp>>

C17_State ==
    \A s \in Slots :
        calls[s].pc = "closures" => calls[s].name = "check_hawker_closures"

C18_Step ==
    \A s \in Slots :
        FetchFails(s) /\ calls[s].pc = "closures" =>
            /\ calls'[s].data = <<>>
            /\ calls'[s].result
                  = CallToolResult(calls[s].name, calls[s].args, Returns(<<>>))
            /\ UNCHANGED <<cachedClosures, closureCacheTimestamp>>

C18_ClosureFailureEmpty == [][C18_Step]_vars

(* A failed closure fetch while the cache holds expired closure records *)
C18_Witness ==
    /\ cachedClosures.set
    /\ Len(cachedClosures.data) = 2
    /\ now - closureCacheTimestamp >= CLOSURE_CACHE_DURATION
    /\ \E s \in Slots :
          /\ calls[s].pc = "done"
          /\ calls[s].name = "check_hawker_closures"
          /\ calls[s].failed
          /\ calls[s].data = <<>>
          /\ calls[s].result.kind = "content"

(* The names declared by tools/list *)
Declared == {tools[i].name : i \in DOMAIN tools}

(* The handler that belongs to a declared name, by its place in the list *)
OwnHandler(name, args, data) ==
    CASE name = tools[1].name -> getNearbyHawkersTool(args, data)
      [] name = tools[2].name -> getClosuresTool(args, data)
      [] name = tools[3].name -> getHawkerDetailsTool(args, data)

(* C22: tools/list declares exactly three tools, and the declared names are *)
(* exactly the names that tools/call routes: a call of a declared name ends *)
(* as its own handler ends (its content, or an internal error when it       *)
(* raises), a call of any other name ends with MethodNotFound.              *)
C22_DeclaredIsRouted ==
    /\ Len(tools) = 3
    /\ Cardinality(Declared) = 3
    /\ \A s \in Slots :
          calls[s].pc = "done" =>
              IF calls[s].name \in Declared
              THEN LET out == OwnHandler(calls[s].name, calls[s].args, calls[s].data)
                   IN  /\ out.kind = "content" => calls[s].result = out
                       /\ out.kind = "raise" => calls[s].result.code = "InternalError"
              ELSE calls[s].result.code = "MethodNotFound"
    /\ \A s \in Slots :
          calls[s].pc \notin {"idle", "done"} => calls[s].name \in Declared

(* A call of a declared name answered by its handler and a call of another  *)
(* name refused                                                             *)
C22_Witness ==
    \E s, t \in Slots :
        /\ calls[s].pc = "done"
        /\ calls[s].name = "get_hawker_details"
        /\ calls[s].result.kind = "content"
        /\ Head(calls[s].result.content[1].text) = "Details for "
        /\ calls[t].pc = "done"
        /\ calls[t].name = "find-nearby"
        /\ calls[t].result.code = "MethodNotFound"

(* C25: under any interleaving of overlapping refreshes, a cache slot is    *)
(* empty or holds the complete parsed result of one successful fetch; a     *)
(* slot's data and timestamp are replaced in the same step, by the result   *)
(* of the fetch that completes in it and the time of that step, so that a   *)
(* timestamp is non-zero exactly when its slot holds data.                  *)
ParsedHawkers(body) == [i \in DOMAIN body |-> parseFeature(body[i])]
ParsedClosures(body) == [i \in DOMAIN body |-> parseRecord(body[i])]

C25_State ==
    /\ cachedHawkers.set <=> cacheTimestamp # 0
    /\ cachedClosures.set <=> closureCacheTimestamp # 0
    /\ cachedHawkers.set =>
           \E body \in HawkerFeeds :
               /\ \A i \in DOMAIN body : body[i].wellFormed
               /\ cachedHawkers.data = ParsedHawkers(body)
    /\ cachedClosures.set =>
           \E body \in ClosureFeeds : cachedClosures.data = ParsedClosures(body)

C25_Step ==
    /\ cachedHawkers' # cachedHawkers \/ cacheTimestamp' # cacheTimestamp =>
           /\ cacheTimestamp' = now
           /\ \E s \in Slots :
                  /\ calls[s].pc = "download" /\ calls'[s].pc = "done"
                  /\ ~calls'[s].failed
                  /\ cachedHawkers' = Cached(calls'[s].data)
    /\ cachedClosures' # cachedClosures \/ closureCacheTimestamp' # closureCacheTimestamp =>
           /\ closureCacheTimestamp' = now
           /\ \E s \in Slots :
                  /\ calls[s].pc = "closures" /\ calls'[s].pc = "done"
                  /\ ~calls'[s].failed
                  /\ cachedClosures' = Cached(calls'[s].data)

C25_WholeResults == []C25_State /\ [][C25_Step]_vars

(* Two refreshes of the hawker slot have overlapped (the second began       *)
(* before the first had filled the slot) and fetched different collections; *)
(* the slot holds the one that completed last                               *)
C25_Witness ==
    /\ now = StartTime
    /\ \A s \in Slots :
           calls[s].pc = "done" /\ UsesHawkers(calls[s].name) /\ calls[s].args.defined
              /\ ~calls[s].failed
    /\ calls[1].data # calls[2].data
    /\ cachedHawkers.set
    /\ cachedHawkers.data \in {calls[1].data, calls[2].data}

(* C26: the two pipelines are independent. A step of fetchHawkerClosures,   *)
(* successful or failed, leaves the hawker slot and its timestamp as they   *)
(* were, and a step of fetchHawkerCentres leaves the closure slot and its   *)
(* timestamp as they were. There is one slot per dataset: a call served     *)
(* from a slot gets the slot's collection whatever its tool and arguments.  *)
ClosuresStep(s) == calls[s].pc = "closures" /\ calls'[s] # calls[s]
HawkersStep(s) == calls[s].pc \in {"poll", "download"} /\ calls'[s] # calls[s]

(* Call s arrives and is served from a slot in the same step *)
ServedAtOnce(s) ==
    calls[s].pc = "idle" /\ calls'[s].pc = "done"
        /\ calls'[s].name \in ToolNames /\ calls'[s].args.defined

C26_Step ==
    \A s \in Slots :
        /\ ClosuresStep(s) => UNCHANGED <<cachedHawkers, cacheTimestamp>>
        /\ HawkersStep(s) => UNCHANGED <<cachedClosures, closureCacheTimestamp>>
        /\ ServedAtOnce(s) =>
               calls'[s].data = IF UsesHawkers(calls'[s].name)
                                THEN cachedHawkers.data ELSE cachedClosures.data

C26_Independent == [][C26_Step]_vars

(* The hawker slot is filled and a failed closures fetch lies behind *)
C26_Witness ==
    /\ cachedHawkers.set /\ Len(cachedHawkers.data) > 0
    /\ calls[1].name = "get_hawker_details" /\ calls[1].pc = "done" /\ ~calls[1].failed
    /\ calls[2].name = "check_hawker_closures" /\ calls[2].pc = "done"
    /\ calls[2].args.defined /\ calls[2].failed

(* C27: the hawker slot and its timestamp are replaced only in the step in  *)
(* which the payload step of a fetch, after its metadata step, succeeds and *)
(* is parsed; when the metadata step has succeeded and the payload step     *)
(* fails or cannot be parsed, slot and timestamp are exactly as before.     *)
PayloadFails(s) ==
    calls[s].pc = "download" /\ calls'[s].pc = "done" /\ calls'[s].failed

PayloadParsed(s) ==
    calls[s].pc = "download" /\ calls'[s].pc = "done" /\ ~calls'[s].failed

C27_Step ==
    /\ \A s \in Slots : PayloadFails(s) => UNCHANGED <<cachedHawkers, cacheTimestamp>>
    /\ (\A s \in Slots : ~PayloadParsed(s)) => UNCHANGED <<cachedHawkers, cacheTimestamp>>

C27_AllOrNothing == [][C27_Step]_vars

(* A refresh of a filled, expired slot has passed its metadata step; its   *)
(* payload step is the next step of that call                               *)
C27_Witness ==
    /\ cachedHawkers.set /\ Len(cachedHawkers.data) > 0
    /\ cacheTimestamp = StartTime /\ now >= cacheTimestamp + CACHE_DURATION
    /\ \E s \in Slots : calls[s].pc = "download"

(* C34: a failed refresh is not remembered. The step in which a fetch fails *)
(* leaves both slots and both timestamps as they were; a call that needs a  *)
(* dataset and finds its slot null or expired starts an upstream fetch; the *)
(* step in which such a fetch succeeds leaves the slot fresh with the       *)
(* fetched collection, and a call that finds a slot fresh is answered from  *)
(* it.                                                                      *)
NeedsData(s) ==
    calls[s].pc = "idle" /\ calls'[s].pc # "idle"
        /\ calls'[s].name \in ToolNames /\ calls'[s].args.defined

FetchSucceeds(s) ==
    calls[s].pc \in {"download", "closures"} /\ calls'[s].pc = "done" /\ ~calls'[s].failed

C34_Step ==
    \A s \in Slots :
        /\ FetchFails(s) =>
               UNCHANGED <<cachedHawkers, cacheTimestamp, cachedClosures,
                           closureCacheTimestamp>>
        /\ NeedsData(s) /\ UsesHawkers(calls'[s].name) =>
               IF cachedHawkers.set /\ now - cacheTimestamp < CACHE_DURATION
               THEN calls'[s].pc = "done" /\ calls'[s].data = cachedHawkers.data
               ELSE calls'[s].pc = "poll"
        /\ NeedsData(s) /\ ~UsesHawkers(calls'[s].name) =>
               IF cachedClosures.set /\ now - closureCacheTimestamp < CLOSURE_CACHE_DURATION
               THEN calls'[s].pc = "done" /\ calls'[s].data = cachedClosures.data
               ELSE calls'[s].pc = "closures"
        /\ FetchSucceeds(s) /\ calls[s].pc = "download" =>
               /\ cachedHawkers' = Cached(calls'[s].data)
               /\ now' - cacheTimestamp' < CACHE_DURATION
        /\ FetchSucceeds(s) /\ calls[s].pc = "closures" =>
               /\ cachedClosures' = Cached(calls'[s].data)
               /\ now' - closureCacheTimestamp' < CLOSURE_CACHE_DURATION

C34_FailureNotRemembered == [][C34_Step]_vars

(* The first refresh of the hawker slot failed on an empty slot; the second *)
(* call fetched again and its fetch has filled the slot                     *)
C34_Witness ==
    /\ calls[1].pc = "done" /\ calls[1].failed /\ UsesHawkers(calls[1].name)
    /\ calls[1].data = <<>>
    /\ calls[2].pc = "done" /\ ~calls[2].failed /\ UsesHawkers(calls[2].name)
    /\ calls[2].args.defined
    /\ Len(calls[2].data) = 2
    /\ cachedHawkers = Cached(calls[2].data)
    /\ cacheTimestamp = now

(* C35: check_hawker_closures answers a subject with the sentence 'No       *)
(* scheduled closures found ... It should be open' only if the closure      *)
(* collection fetched by the latest successful fetch, which is the one the  *)
(* closure slot holds, has no record whose name contains the subject        *)
(* ignoring case.                                                           *)
NoClosuresSentence(subject) ==
    Content(<<"No scheduled closures found for \"">> \o subject
            \o <<"\". It should be open as per the latest data.">>)

NameContains(name, subject) ==
    \E offset \in 0..(Len(name) - Len(subject)) :
        \A k \in 1..Len(subject) : LowerChar(name[offset + k]) = LowerChar(subject[k])

SaysOpen(s) ==
    /\ calls[s].pc # "done" /\ calls'[s].pc = "done"
    /\ calls'[s].name = "check_hawker_closures"
    /\ calls'[s].args.defined /\ calls'[s].args.hawkerName # Undefined
    /\ calls'[s].result = NoClosuresSentence(calls'[s].args.hawkerName)

C35_Step ==
    \A s \in Slots :
        SaysOpen(s) /\ cachedClosures'.set =>
            \A i \in DOMAIN cachedClosures'.data :
                ~NameContains(cachedClosures'.data[i].name, calls'[s].args.hawkerName)

C35_OpenOnlyIfNoRecord == [][C35_Step]_vars

-----------------------------------------------------------------------------
(* Claims about the ranker, checked under SpecRank *)

(* C9: whatever the query point, radius, limit and collection, the ranking  *)
(* holds at most limit entries, each within radius of the query point, in   *)
(* non-decreasing order of distance.                                        *)
C9_AtMostLimit ==
    rankOut.done => Len(rankOut.nearby) <= rankIn.limit

C9_WithinRadiusSorted ==
    rankOut.done =>
        /\ \A i \in DOMAIN rankOut.nearby :
              rankOut.nearby[i].distance <= rankIn.radius * 1000
        /\ \A i, j \in DOMAIN rankOut.nearby :
              i < j => rankOut.nearby[i].distance <= rankOut.nearby[j].distance

(* C9, all of it: at most limit entries, each within radius, in order *)
C9_Bounded == C9_AtMostLimit /\ C9_WithinRadiusSorted

(* C10: when every entry of the collection lies within radius and limit is  *)
(* at least the collection's size N, the ranking holds exactly N entries,   *)
(* each entry of the collection as often as the collection holds it.        *)
Count(arr, x) == Cardinality({i \in DOMAIN arr : arr[i] = x})

AllWithin ==
    \A i \in DOMAIN rankIn.allHawkers :
        Millimetres(calculateDistance(rankIn.at.lat, rankIn.at.lon,
                                      rankIn.allHawkers[i].latitude,
                                      rankIn.allHawkers[i].longitude))
            <= rankIn.radius * 1000

C10_AllReturned ==
    rankOut.done /\ AllWithin /\ rankIn.limit >= Len(rankIn.allHawkers)
        => /\ Len(rankOut.nearby) = Len(rankIn.allHawkers)
           /\ \A h \in SomeHawkers :
                 Count([i \in DOMAIN rankOut.nearby |-> rankOut.nearby[i].hawker], h)
                    = Count(rankIn.allHawkers, h)

(* Two distinct entries within radius of the query point, limit equal to N: *)
(* both are returned, the nearer one first                                  *)
C10_Witness ==
    /\ rankOut.done
    /\ AllWithin
    /\ rankIn.at = PtQ
    /\ rankIn.allHawkers = <<HawkerA, HawkerB>>
    /\ rankIn.limit = 2
    /\ Len(rankOut.nearby) = 2
    /\ rankOut.nearby[1].hawker = HawkerB

(* C11: entries at equal distance keep their collection order, and the cut  *)
(* to limit comes after the radius filter: the ranking is exactly the first *)
(* limit entries of the in-radius candidates ordered by distance, ties by   *)
(* position in the collection.                                              *)
DistanceAt(i) ==
    Millimetres(calculateDistance(rankIn.at.lat, rankIn.at.lon,
                                  rankIn.allHawkers[i].latitude,
                                  rankIn.allHawkers[i].longitude))

InRadius == {i \in DOMAIN rankIn.allHawkers : DistanceAt(i) <= rankIn.radius * 1000}

(* The position in the collection of the k-th candidate *)
Candidate(k) ==
    CHOOSE i \in InRadius :
        Cardinality({j \in InRadius :
                        \/ DistanceAt(j) < DistanceAt(i)
                        \/ DistanceAt(j) = DistanceAt(i) /\ j < i}) = k - 1

FirstOfCandidates(n) ==
    LET count == IF n < 0 THEN 0
                 ELSE IF n > Cardinality(InRadius) THEN Cardinality(InRadius) ELSE n
    IN  [k \in 1..count |->
            [hawker |-> rankIn.allHawkers[Candidate(k)],
             distance |-> DistanceAt(Candidate(k))]]

C11_StableThenTruncated ==
    rankOut.done => rankOut.nearby = FirstOfCandidates(rankIn.limit)

(* The same for a limit that is a count *)
C11_ForCounts ==
    rankOut.done /\ rankIn.limit >= 0 => rankOut.nearby = FirstOfCandidates(rankIn.limit)

-----------------------------------------------------------------------------
(* Claims about single tool calls, checked under SpecTools *)

(* The arguments with radius = 2000 and limit = 10 written out where they   *)
(* are omitted                                                              *)
Explicit(args) ==
    [args EXCEPT !.radius = IF @ = <<>> THEN <<2000>> ELSE @,
                 !.limit = IF @ = <<>> THEN <<10>> ELSE @]

(* C12: a get_nearby_hawkers call that omits radius, limit or both ends as  *)
(* the call that supplies radius = 2000 and limit = 10 in their place, at   *)
(* the dispatcher and through the bridge helper getNearbyHawkers, which     *)
(* sends the two values itself.                                             *)
C12_DefaultsApplied ==
    toolOut.done /\ toolIn.name = "get_nearby_hawkers" =>
        /\ toolOut.result
              = CallToolResult(toolIn.name, Explicit(toolIn.args), Returns(toolIn.data))
        /\ toolIn.via = "bridge" =>
              /\ toolOut.sent.radius = Explicit(toolIn.args).radius
              /\ toolOut.sent.limit = Explicit(toolIn.args).limit
              /\ toolOut.text = toolOut.result.content[1].text

(* A call at the dispatcher without radius and limit, over a collection of  *)
(* which some entries lie within 2000 m and some do not                     *)
C12_Witness ==
    /\ toolOut.done
    /\ toolIn.via = "dispatcher"
    /\ toolIn.name = "get_nearby_hawkers"
    /\ toolIn.args.radius = <<>>
    /\ toolIn.args.limit = <<>>
    /\ toolIn.data = <<HawkerF, HawkerB, HawkerA>>
    /\ Head(toolOut.result.content[1].text) = "Found "
    /\ toolOut.result.content[1].text[2] = "2"

(* C36: get_nearby_hawkers answers with the sentence 'No Hawker centres     *)
(* found within Nm of your location.' if and only if no entry of the        *)
(* collection it fetched lies within the radius of the query point,         *)
(* whatever the limit.                                                      *)
NearbyCall == toolOut.done /\ toolIn.name = "get_nearby_hawkers"

WithinRadius ==
    {i \in DOMAIN toolIn.data :
        Millimetres(calculateDistance(toolIn.args.latitude[1], toolIn.args.longitude[1],
                                      toolIn.data[i].latitude, toolIn.data[i].longitude))
            <= Explicit(toolIn.args).radius[1] * 1000}

NoneFoundSentence ==
    <<"No Hawker centres found within ", ToString(Explicit(toolIn.args).radius[1]),
      "m of your location.">>

C36_NoneFoundIffNoneWithin ==
    NearbyCall =>
        /\ toolOut.result.kind = "content"
        /\ toolOut.result.content[1].text = NoneFoundSentence <=> WithinRadius = {}

(* C37: the outcome of check_hawker_closures or get_hawker_details called   *)
(* without the subject name does not depend on the collection fetched: the  *)
(* call ends in the same kind of outcome, a protocol error or a content     *)
(* result, as it does over the empty collection.                            *)
WithoutSubject ==
    /\ toolOut.done
    /\ toolIn.name \in {"check_hawker_closures", "get_hawker_details"}
    /\ toolIn.args.hawkerName = Undefined

C37_SameKindForAnyCollection ==
    WithoutSubject =>
        toolOut.result.kind = CallToolResult(toolIn.name, toolIn.args, Returns(<<>>)).kind

(* name contains subject when the case of letters is ignored *)
ContainsIgnoringCase(name, subject) ==
    \E offset \in 0..(Len(name) - Len(subject)) :
        \A k \in 1..Len(subject) : LowerChar(name[offset + k]) = LowerChar(subject[k])

(* The positions in the collection of the entries whose name contains the   *)
(* subject of the call                                                      *)
Matching ==
    {i \in DOMAIN toolIn.data :
        ContainsIgnoringCase(toolIn.data[i].name, toolIn.args.hawkerName)}

(* The k-th smallest element of a set of positions *)
Nth(S, k) == CHOOSE i \in S : Cardinality({j \in S : j < i}) = k - 1

ClosuresCall ==
    /\ toolOut.done
    /\ toolIn.name = "check_hawker_closures"
    /\ toolIn.args.hawkerName # Undefined

(* C13: a closure check for a subject that no closure record matches, the   *)
(* empty collection included, returns as content the sentence 'No scheduled *)
(* closures found for "<subject>". It should be open as per the latest      *)
(* data.', and is not an error.                                             *)
C13_NoClosuresSentence ==
    ClosuresCall /\ Matching = {} =>
        /\ toolOut.result.kind = "content"
        /\ toolOut.result.content
              = << [type |-> "text",
                    text |-> <<"No scheduled closures found for \"">>
                                \o toolIn.args.hawkerName
                                \o <<"\". It should be open as per the latest data.">>] >>
        /\ toolIn.via = "bridge" => toolOut.text = toolOut.result.content[1].text

(* The collection is empty *)
C13_Witness ==
    /\ ClosuresCall
    /\ toolIn.data = <<>>
    /\ toolIn.args.hawkerName = <<"B", "c">>
    /\ toolOut.result.kind = "content"

(* C14: a closure check selects exactly the records whose name contains the *)
(* subject, case ignored; when there are any, its text lists the period,    *)
(* the dates and the reason of each selected record, once each, in the      *)
(* order of the collection.                                                 *)
C14_Listed ==
    [k \in 1..Cardinality(Matching) |->
        LET c == toolIn.data[Nth(Matching, k)]
        IN  <<"* ">> \o c.quarter \o <<": ">> \o c.closureDates
               \o <<"\n  Reason: ">> \o c.reason]

C14_ClosuresSelected ==
    ClosuresCall /\ Matching # {} =>
        /\ toolOut.result.kind = "content"
        /\ toolOut.result.content[1].text
              = <<"Closure information for \"">> \o toolIn.args.hawkerName
                   \o <<"\":\n\n">> \o join(C14_Listed, <<"\n\n">>)

(* The subject in another case than the names; the first and the third      *)
(* record of the collection match                                           *)
C14_Witness ==
    /\ ClosuresCall
    /\ toolIn.args.hawkerName = <<"b", "C">>
    /\ toolIn.data = <<ClosureB2, ClosureA, ClosureB>>
    /\ Matching = {1, 3}
    /\ toolOut.result.content[1].text
          = <<"Closure information for \"", "b", "C", "\":\n\n",
              "* ", "Q2", ": ", "\n  Reason: ", "Scheduled closure", "\n\n",
              "* ", "Q1", ": ", "1 Jan", "\n  Reason: ", "Cleaning">>

(* name equals subject when the case of letters is ignored *)
EqualsIgnoringCase(name, subject) ==
    /\ Len(name) = Len(subject)
    /\ \A k \in 1..Len(subject) : LowerChar(name[k]) = LowerChar(subject[k])

Equalling ==
    {i \in DOMAIN toolIn.data :
        EqualsIgnoringCase(toolIn.data[i].name, toolIn.args.hawkerName)}

DetailsCall ==
    /\ toolOut.done
    /\ toolIn.name = "get_hawker_details"
    /\ toolIn.args.hawkerName # Undefined

CouldNotFind ==
    Content(<<"Could not find details for \"">> \o toolIn.args.hawkerName
            \o <<"\". Please check the name and try again.">>)

(* C15: a details lookup returns the entry whose name equals the subject,   *)
(* case ignored, when there is one, even after an entry whose name only     *)
(* contains the subject; otherwise the first entry of the collection whose  *)
(* name contains the subject, case ignored; and the sentence 'Could not     *)
(* find details ...' exactly when no name contains the subject.             *)
C15_DetailsMatch ==
    DetailsCall =>
        /\ Equalling # {} =>
              toolOut.result = Content(DetailsText(toolIn.data[Nth(Equalling, 1)]))
        /\ Equalling = {} /\ Matching # {} =>
              toolOut.result = Content(DetailsText(toolIn.data[Nth(Matching, 1)]))
        /\ toolOut.result = CouldNotFind <=> Matching = {}

(* The first entry contains the subject, the third equals it in another     *)
(* case: the third is returned                                              *)
C15_Witness ==
    /\ DetailsCall
    /\ toolIn.args.hawkerName = <<"b", "C">>
    /\ toolIn.data = <<HawkerB2, HawkerA, HawkerB>>
    /\ toolOut.result = Content(DetailsText(HawkerB))

(* Claims about the parsing of feed entries, checked under SpecParse *)

(* The properties absent from a feature for which the parsed hawker holds   *)
(* the empty string or 0                                                    *)
C19_HawkerDefaultsKept ==
    parseOut.done /\ parseIn.kind = "feature" =>
        /\ parseIn.raw.ADDRESSPOSTALCODE = Undefined => parseOut.value.postalCode = <<>>
        /\ parseIn.raw.DESCRIPTION = Undefined => parseOut.value.description = <<>>
        /\ parseIn.raw.PHOTOURL = Undefined => parseOut.value.photoUrl = <<>>
        /\ parseIn.raw.NUMBER_OF_COOKED_FOOD_STALLS = <<>> => parseOut.value.stallCount = 0

(* The address with each absent part as the empty string *)
C19_Address ==
    OrEmpty(parseIn.raw.ADDRESSBLOCKHOUSENUMBER) \o <<" ">>
        \o OrEmpty(parseIn.raw.ADDRESSSTREETNAME)

C19_HawkerDefaultsMissing ==
    parseOut.done /\ parseIn.kind = "feature" =>
        /\ parseIn.raw.NAME = Undefined => parseOut.value.name = <<>>
        /\ parseOut.value.address = C19_Address
        /\ parseIn.raw.STATUS = Undefined => parseOut.value.status = <<>>

C19_ClosureDefaultsKept ==
    parseOut.done /\ parseIn.kind = "record" =>
        /\ parseIn.raw.name = Undefined => parseOut.value.name = <<>>
        /\ parseIn.raw.quarter = Undefined => parseOut.value.quarter = <<>>
        /\ parseIn.raw.closure_dates = Undefined => parseOut.value.closureDates = <<>>

C19_ClosureDefaultsMissing ==
    parseOut.done /\ parseIn.kind = "record" /\ parseIn.raw.reason = Undefined =>
        parseOut.value.reason = <<>>

(* What holds of C19 *)
C19_Kept == C19_HawkerDefaultsKept /\ C19_ClosureDefaultsKept

(* C19: in a parsed feed entry every absent count is 0 and every absent     *)
(* string is the empty string: for a hawker its name, the parts of its      *)
(* address, postal code, description, status, photo reference and stall     *)
(* count; for a closure its name, period, dates and reason.                 *)
C19_AbsentDefaults ==
    /\ C19_HawkerDefaultsKept
    /\ C19_HawkerDefaultsMissing
    /\ C19_ClosureDefaultsKept
    /\ C19_ClosureDefaultsMissing

-----------------------------------------------------------------------------

-----------------------------------------------------------------------------
(* Claims about the distance function, checked under SpecDistance *)

Measured == distOut.there # NotMeasured /\ distOut.back # NotMeasured

(* The two distances differ by less than one micrometre, which is 10^7     *)
(* units of 10^-13 metre                                                    *)
WithinMicrometre(x, y) ==
    \/ x.hi = y.hi /\ x.lo - y.lo < 10000000 /\ y.lo - x.lo < 10000000
    \/ x.hi = y.hi + 1 /\ 1000000000 + x.lo - y.lo < 10000000
    \/ y.hi = x.hi + 1 /\ 1000000000 + y.lo - x.lo < 10000000

NonNegative(x) == x.hi >= 0 /\ x.lo >= 0

-----------------------------------------------------------------------------
(* Claims about the stdout listener, checked under SpecChunks *)

(* The bytes that have arrived, and the lines that are complete in them:    *)
(* the k-th line lies between the (k-1)-th and the k-th newline             *)
ArrivedBytes == SubSeq(chunkIn, 1, arrived)
Newlines == {i \in 1..arrived : chunkIn[i] = "\n"}
KthNewline(k) == CHOOSE i \in Newlines : Cardinality({j \in Newlines : j < i}) = k - 1
CompleteLines ==
    [k \in 1..Cardinality(Newlines) |->
        toString(SubSeq(chunkIn, IF k = 1 THEN 1 ELSE KthNewline(k - 1) + 1,
                        KthNewline(k) - 1))]

IsMessage(line) == trim(line) # <<>> /\ JSONparse(line).valid
MessageLines == SelectSeq(CompleteLines, IsMessage)

(* The first message handled that bears id, 0 if there is none *)
FirstFor(id) ==
    LET at == {i \in DOMAIN handled : handled[i].hasId /\ handled[i].id = id}
    IN  IF at = {} THEN 0 ELSE Min(at)

(* C33: however the child's bytes are cut into chunks, the messages handled *)
(* are the newline-terminated JSON lines that have arrived, each once and   *)
(* in the order of arrival, so that a line cut by a chunk boundary is       *)
(* handled only when its newline has arrived; a request is settled by the   *)
(* first message that bears its id, and a line that is not JSON, bears no   *)
(* id or bears an id that is not pending settles nothing and leaves the     *)
(* pending map as it is.                                                    *)
C33_Reassembled ==
    /\ Len(handled) = Len(MessageLines)
    /\ \A i \in DOMAIN handled : handled[i] = JSONparse(MessageLines[i])
    /\ pendingRequests = {id \in {1, 2} : FirstFor(id) = 0}
    /\ \A id \in {1, 2} :
           completion[id] =
               IF FirstFor(id) = 0 THEN Unsettled
               ELSE IF handled[FirstFor(id)].error
               THEN Rejected("Tool execution failed", id)
               ELSE Resolved("result", id)

(* A line that is not JSON has arrived whole and settled nothing; the       *)
(* response to request 2 is cut inside its two-byte character and waits in  *)
(* the buffer for its newline                                               *)
C33_Witness ==
    /\ chunkIn = <<"x", "\n", "{", "2", "c1", "c2", "}", "\n", "{", "1", "}">>
    /\ arrived = 5
    /\ buffer = <<"{", "2", "?">>
    /\ handled = <<>>
    /\ pendingRequests = {1, 2}

-----------------------------------------------------------------------------
(* Claims about the bridge, checked under Spec *)

FromResponse(p) ==
    \/ p.st = "resolved"
    \/ p.st = "rejected" /\ p.text \in {"Tool execution failed", "MCP error"}

(* C1: whatever the order in which the responses of concurrently            *)
(* outstanding requests arrive, a caller's completion that is settled from  *)
(* a response is settled with the payload of the response to the id         *)
(* assigned to that caller's own request (the child computes a response's   *)
(* payload from the envelope it answers), never with another one's.         *)
C1_MatchedById ==
    \A c \in Callers :
        callerReq[c] # 0 /\ FromResponse(completion[callerReq[c]])
            => /\ req[callerReq[c]].arg = c
               /\ completion[callerReq[c]].arg = c

(* Two requests are outstanding, the response to the later one has settled  *)
(* its caller while the response to the earlier one is still in the pipe.   *)
C1_Witness ==
    /\ messageId >= 2
    /\ completion[2].st = "resolved"
    /\ 1 \in pendingRequests
    /\ \E m \in stdout : m.id = 1

(* C2: a request is never pending once its 30 s are over: when its timer    *)
(* fires while it is pending it is rejected with the timeout error and its  *)
(* entry removed; a response with that id handled afterwards changes        *)
(* neither the pending map nor any completion.                              *)
TimedOut(id) == completion[id] = Rejected("MCP request timeout", 0)

C2_TimeoutState ==
    \A id \in Ids :
        /\ id \in pendingRequests => timeLeft[id] >= 0 /\ completion[id].st = "pending"
        /\ TimedOut(id) => id \notin pendingRequests /\ timeLeft[id] = -1

C2_TimeoutStep ==
    \A id \in Ids :
        /\ timeLeft[id] = 0 /\ timeLeft'[id] = -1 /\ id \in pendingRequests
              => TimedOut(id)' /\ pendingRequests' = pendingRequests \ {id}
        /\ TimedOut(id) /\ (\E m \in stdout : m.id = id /\ m \notin stdout')
              => pendingRequests' = pendingRequests /\ completion' = completion

C2_Timeout == []C2_TimeoutState /\ [][C2_TimeoutStep]_vars

(* A request timed out, and the response of its still running child was    *)
(* handled after that.                                                      *)
C2_Witness ==
    \E id \in Ids :
        /\ TimedOut(id)
        /\ childState[req[id].child] = "running"
        /\ id \notin stdin
        /\ \A m \in stdout : m.id # id

(* C3: when the exit of a child is delivered, every request pending at that *)
(* moment is rejected with 'MCP server exited', the pending map is empty    *)
(* and the process handle null; and a callTool or listTools made while the  *)
(* handle is null spawns a new child and takes the handle to it.            *)
C3_ExitStep ==
    /\ \A k \in Children :
          childState[k] = "dead" /\ childState'[k] = "exited"
             => /\ pendingRequests' = {}
                /\ process' = 0
                /\ \A id \in pendingRequests :
                      completion'[id] = Rejected("MCP server exited", 0)
    /\ \A c \in Callers :
          process = 0 /\ pc[c] = "idle" /\ pc'[c] # "idle"
             => /\ spawned' = spawned + 1
                /\ process' = spawned'
                /\ childState[process'] = "none"
                /\ childState'[process'] = "running"

C3_ExitRejectsAllAndRelaunches == [][C3_ExitStep]_vars

(* A child exited with a request pending, which was rejected, and the next  *)
(* call launched a second child.                                            *)
C3_Witness ==
    /\ \E id \in Ids : completion[id] = Rejected("MCP server exited", 0)
    /\ childState[1] = "exited"
    /\ process = 2
    /\ childState[2] = "running"

(* C20: when a response whose id is pending is handled, the completion of   *)
(* that id is rejected with the error message of the response if the        *)
(* response carries an error, and resolved with its result payload if not;  *)
(* its entry has left the pending map by the time the completion is         *)
(* settled.                                                                 *)
C20_Step ==
    \A m \in stdout :
        m \notin stdout' /\ m.id \in pendingRequests =>
            /\ completion[m.id].st = "pending"
            /\ m.id \notin pendingRequests'
            /\ completion'[m.id] = IF m.error THEN Rejected(m.text, m.arg)
                                   ELSE Resolved(m.text, m.arg)

C20_State ==
    \A id \in Ids : completion[id].st \in {"resolved", "rejected"} => id \notin pendingRequests

C20_ErrorOrResult == []C20_State /\ [][C20_Step]_vars

(* One response with an error and one with a result have been handled *)
C20_Witness ==
    /\ pendingRequests = {}
    /\ completion[1] = Rejected("Tool execution failed", 1)
    /\ completion[2] = Resolved("result", 2)

(* C21: stop() is the only way to cancel, and it cancels everything: a      *)
(* request that is pending when stop() has terminated the child (the handle *)
(* is null and the entry still in the map) is failed with an error and is   *)
(* never resolved with a result.                                            *)
C21_Step ==
    \A id \in Ids :
        process = 0 /\ id \in pendingRequests => completion'[id].st # "resolved"

C21_StopFailsPending == [][C21_Step]_vars

(* No step takes one entry out of the pending map except the handling of    *)
(* its response, its timeout and its write error                            *)
C21_NoSingleCancel ==
    [][\A id \in pendingRequests :
          id \notin pendingRequests' =>
              \/ pendingRequests' = {}
              \/ completion'[id].st = "resolved"
              \/ /\ completion'[id].st = "rejected"
                 /\ completion'[id].text
                       \in {"Tool execution failed", "MCP request timeout", "write EPIPE"}]_vars

(* C24: request ids are strictly increasing over the lifetime of the        *)
(* bridge, across child exits and relaunches too, and no id is used twice;  *)
(* the pending map changes only by the insertion of an entry under a fresh  *)
(* id, never under a key it holds, or by the removal of entries it holds.   *)
Assigned(id) == req[id] # NoReq

C24_Step ==
    /\ messageId' \in {messageId, messageId + 1}
    /\ \A id \in Ids : Assigned(id) => id <= messageId /\ req'[id] = req[id]
    /\ \A id \in Ids :
           ~Assigned(id) /\ Assigned(id)' => id = messageId + 1 /\ messageId' = id
    /\ \A id \in pendingRequests' \ pendingRequests :
           /\ id = messageId' /\ id > messageId
           /\ ~Assigned(id)
           /\ pendingRequests' = pendingRequests \cup {id}
    /\ pendingRequests' \subseteq pendingRequests \cup {messageId + 1}

C24_FreshIds == [][C24_Step]_vars

C24_Witness ==
    /\ messageId = 2
    /\ req[1].child = 1 /\ req[2].child = 2
    /\ childState[1] = "exited"
    /\ 2 \in pendingRequests

(* C28: after a child has exited the bridge spawns no child on its own: a   *)
(* child is spawned, and the handle set, only in the step in which a        *)
(* callTool or listTools begins; and no request is sent again: what is      *)
(* written to a child is only the envelope of the id assigned in that step, *)
(* so a request that timed out or was failed by the exit is never written   *)
(* a second time.                                                           *)
CallBegins == \E c \in Callers : pc[c] = "idle" /\ pc'[c] = "starting"

C28_Step ==
    /\ spawned' # spawned => CallBegins /\ spawned' = spawned + 1
    /\ process' # process /\ process' # 0 => CallBegins /\ process = 0
    /\ \A id \in Ids :
           (id \in stdin' \ stdin) \/ (id \in writeFail' \ writeFail) =>
               /\ completion[id].st = "none"
               /\ id = messageId + 1 /\ messageId' = id
    /\ \A id \in Ids : completion[id].st = "rejected" => req'[id] = req[id]

C28_NoRespawnNoResend == [][C28_Step]_vars

(* The first child has exited and its exit has failed request 1; the second *)
(* child has been spawned for the second call                               *)
C28_Witness ==
    /\ childState[1] = "exited"
    /\ completion[1] = Rejected("MCP server exited", 0)
    /\ process = 2 /\ childState[2] = "running"
    /\ pc[2] \in {"starting", "sent"}

(* C29: every request that sendRequest accepts is settled in the end, and   *)
(* once: with the result of the response that bears its id, with that       *)
(* response's error, with a write error, with the timeout error or with the *)
(* server-exited error; from the step that settles it on, its entry is not  *)
(* in the pending map. Checked under SpecTimers.                            *)
Outcomes(id) ==
    { Resolved("result", req[id].arg),
      Rejected("Tool execution failed", req[id].arg),
      Rejected("write EPIPE", 0),
      Rejected("MCP request timeout", 0),
      Rejected("MCP server exited", 0) }

IsSettled(id) == completion[id].st \in {"resolved", "rejected"}

C29_Step ==
    \A id \in Ids :
        /\ ~Assigned(id) /\ Assigned(id)' =>
               completion'[id] = Unsettled /\ id \in pendingRequests'
        /\ completion[id].st = "pending" /\ completion'[id] # completion[id] =>
               completion'[id] \in Outcomes(id) /\ id \notin pendingRequests'
        /\ IsSettled(id) => completion'[id] = completion[id] /\ id \notin pendingRequests'

C29_SettledOnce ==
    /\ [][C29_Step]_vars
    /\ \A id \in Ids : completion[id].st = "pending" ~> IsSettled(id)

(* Request 1 was written to a child that runs and never answered it: the    *)
(* timeout has settled it                                                   *)
C29_Witness ==
    /\ completion[1] = Rejected("MCP request timeout", 0)
    /\ childState[req[1].child] = "running"
    /\ 1 \notin pendingRequests

(* C30: the exit of a child fails only the requests written to that child.  *)
(* When stop() is followed by a call that launches a second child before    *)
(* the exit of the first is delivered, the delivery of that exit rejects no *)
(* request pending on the second child, leaves it in the pending map, and   *)
(* leaves the handle to the second child in place.                          *)
ExitDelivered(k) == childState[k] = "dead" /\ childState'[k] = "exited"

C30_Step ==
    \A k \in Children :
        ExitDelivered(k) =>
            /\ process # k => process' = process
            /\ \A id \in pendingRequests :
                   req[id].child # k =>
                       completion'[id] = completion[id] /\ id \in pendingRequests'

C30_ExitFailsOwnOnly == [][C30_Step]_vars

(* C31: in every reachable state at most one child exists that the bridge   *)
(* has spawned and that has neither exited nor been killed by stop(); a     *)
(* child is spawned only when no earlier such child is still running, under *)
(* any interleaving of callTool, listTools, stop and exit events.           *)
Running == {k \in Children : childState[k] = "running"}

C31_Step == spawned' # spawned => Running = {}

C31_OneChild == [](Cardinality(Running) <= 1) /\ [][C31_Step]_vars

(* C32: calls issued together while no child runs spawn one child (a call   *)
(* that finds a child held spawns none), and no request of these calls is   *)
(* written to the child before the bridge's readiness wait for that child   *)
(* has elapsed. Stated for the first child, where the caller that waits in  *)
(* start() is the one that spawned it.                                      *)
Waiting == {c \in Callers : pc[c] = "starting" /\ pc'[c] = "starting"}

C32_Step ==
    /\ spawned' # spawned => process = 0
    /\ \A id \in Ids :
           id \in stdin' \ stdin /\ spawned = 1 /\ req'[id].child = 1 => Waiting = {}

C32_OneChildWrittenWhenReady == [][C32_Step]_vars

====
